---- MODULE Spec2Model ----
(***************************************************************************)
(* Model of the recipe-platform REST server (src/src/index.ts) and of its  *)
(* persistence gateway (src/src/db.ts).                                    *)
(*                                                                         *)
(* The relational store is modelled as tables (bags or sets of rows); one  *)
(* SQL statement is one atomic step.  A handler that issues one statement  *)
(* is one action; a handler that awaits between two statements is split    *)
(* into one action per statement, with the request's locals kept in a      *)
(* slot, so that other requests interleave between its statements.         *)
(* Every statement may throw (storage failure): an input `fail'.           *)
(***************************************************************************)
EXTENDS Integers, Sequences, FiniteSets, Bags, TLC

----------------------------------------------------------------------------
(* Bounds of the model *)

NumCalls == 3          \* concurrent callers of query()
PoolMax == 2           \* connections the pool hands out at once
NumUserIds == 2        \* user ids used as path parameters
MaxRecipes == 2        \* recipe rows ever stored
MaxUsers == 2          \* user rows ever stored
NumSlots == 2          \* requests of one multi-statement handler in flight
MaxComments == 2       \* comment rows ever stored
MaxImages == 2         \* assets ever stored on the image host

NULL == "NULL"

VARIABLES
  qpc,          \* query(): position of each call
  qclient,      \* query(): the `client' local of each call (0: none)
  checkedOut,   \* pool: clients currently checked out
  users,        \* public.users
  recipes,      \* public.recipes
  favorites,    \* public.favorites (bag of rows)
  ratings,      \* public.ratings (bag of rows)
  nextRecipe,   \* number of recipe ids generated so far
  regs,         \* POST /api/auth/register requests in flight
  pwds,         \* PUT /api/users/:id/password requests in flight
  dels,         \* DELETE /api/recipes/:id requests in flight
  lastPut,      \* history: rating of the last successful PUT per pair
  last,         \* the request answered last and its response
  comments,     \* public.comments
  nextComment,  \* number of comment ids generated so far
  hosted,       \* image host: the assets it stores
  provided,     \* image host: the files its upload API was called with
  puts,         \* PUT /api/recipes/:id requests in flight
  imgs,         \* POST /api/recipes/with-image requests in flight
  issued        \* history: statements issued by the request answered last

vars == <<qpc, qclient, checkedOut, users, recipes, favorites, ratings,
          nextRecipe, regs, pwds, dels, lastPut, last, comments, nextComment,
          hosted, provided, puts, imgs, issued>>

commentVars == <<comments, nextComment>>
dbVars == <<users, recipes, favorites, ratings, nextRecipe, commentVars>>
poolVars == <<qpc, qclient, checkedOut>>
hostVars == <<hosted, provided>>
histVars == <<lastPut>>
slotVars == <<regs, pwds, dels, puts, imgs>>
apiVars == <<users, recipes, favorites, ratings, nextRecipe, regs, pwds, dels,
             lastPut, last, commentVars, hostVars, puts, imgs, issued>>

----------------------------------------------------------------------------
(* src/src/db.ts: the connection pool and query() *)

Calls == 1..NumCalls
Clients == 1..PoolMax

Settled == {"idle", "resolved", "rejected", "unconnected"}

\* query() is entered: pool.connect() is awaited (db.ts:36)
QueryCall(c) ==
  /\ qpc[c] \in Settled
  /\ qpc' = [qpc EXCEPT ![c] = "connecting"]
  /\ UNCHANGED <<qclient, checkedOut, apiVars>>

\* pool.connect() resolves with a client that is not checked out (db.ts:36)
QueryConnect(c) ==
  /\ qpc[c] = "connecting"
  /\ \E k \in Clients \ checkedOut :
       /\ checkedOut' = checkedOut \cup {k}
       /\ qclient' = [qclient EXCEPT ![c] = k]
  /\ qpc' = [qpc EXCEPT ![c] = "running"]
  /\ UNCHANGED apiVars

\* pool.connect() rejects: query() throws before the try block (db.ts:36)
QueryConnectFail(c) ==
  /\ qpc[c] = "connecting"
  /\ qpc' = [qpc EXCEPT ![c] = "unconnected"]
  /\ UNCHANGED <<qclient, checkedOut, apiVars>>

\* client.query() settles: resolved (ok) or rejected (db.ts:38)
QueryStatement(c, ok) ==
  /\ qpc[c] = "running"
  /\ qpc' = [qpc EXCEPT ![c] = IF ok THEN "returning" ELSE "throwing"]
  /\ UNCHANGED <<qclient, checkedOut, apiVars>>

ReleaseOnSuccessOnly(c) ==
  /\ qpc[c] \in {"returning", "throwing"}
  /\ checkedOut' = IF qpc[c] = "returning" THEN checkedOut \ {qclient[c]}
                   ELSE checkedOut
  /\ qclient' = [qclient EXCEPT ![c] = 0]
  /\ qpc' = [qpc EXCEPT ![c] = IF qpc[c] = "returning" THEN "resolved"
                               ELSE "rejected"]
  /\ UNCHANGED apiVars

\* the finally block: client.release() on both exits, then the promise of
\* query() settles (db.ts:39-42)
QueryFinally(c) ==
  /\ qpc[c] \in {"returning", "throwing"}
  /\ checkedOut' = checkedOut \ {qclient[c]}
  /\ qclient' = [qclient EXCEPT ![c] = 0]
  /\ qpc' = [qpc EXCEPT ![c] = IF qpc[c] = "returning" THEN "resolved"
                               ELSE "rejected"]
  /\ UNCHANGED apiVars

\* the calls of query() whose promise has not settled
InFlight == {c \in Calls : qpc[c] \notin Settled}

\* the calls between the resolution of pool.connect() and client.release()
Holding == {c \in Calls : qpc[c] \in {"running", "returning", "throwing"}}

----------------------------------------------------------------------------
(* Values of the requests *)

UserIds == 1..NumUserIds
RecipeIds == 1..MaxRecipes
Slots == 1..NumSlots

\* e-mail addresses are sequences of characters; "" is not an e-mail
Emails == {<<"a">>, <<"A">>, <<"b">>, <<"B">>}
BadEmail == <<>>
Passwords == {"12345", "secret1", "secret2"}
Salts == {"s1"}

\* String.length of the strings used as passwords and names
StrLen(s) ==
  CASE s = "" -> 0
    [] s = "12345" -> 5
    [] s = "secret1" -> 7
    [] s = "secret2" -> 7
    [] s = "secret3" -> 7
    [] s = "Ann" -> 3
    [] s = "Bob" -> 3
    [] s = " Bob " -> 5
    [] s = "   " -> 3
    [] OTHER -> 1

\* String.prototype.trim of the strings used as names (index.ts:368,375)
Trim(s) ==
  CASE s = " Bob " -> "Bob"
    [] s = "   " -> ""
    [] OTHER -> s

\* SQL lower() on one character and on a string (index.ts:506,539)
LowerChar(ch) ==
  CASE ch = "A" -> "a"
    [] ch = "B" -> "b"
    [] OTHER -> ch

KeepCase(e) == e

Lower(e) == [i \in DOMAIN e |-> LowerChar(e[i])]

\* bcrypt.hash(password, 10) with the salt it generated (index.ts:513,420):
\* the hash string carries the cost, the salt and a digest of the password
BcryptHash(pw, salt) ==
  CASE pw = "secret1" /\ salt = "s1" -> "$2a$10$s1$digest1"
    [] pw = "secret2" /\ salt = "s1" -> "$2a$10$s1$digest2"
    [] pw = "secret3" /\ salt = "s1" -> "$2a$10$s1$digest3"
    [] OTHER -> "$2a$10$s1$digest0"

\* the salt a hash string carries
SaltOf(h) == "s1"

\* bcrypt.compare(password, hash): re-hash with the salt of the hash
\* (index.ts:545,414)
BcryptCompare(pw, h) == h = BcryptHash(pw, SaltOf(h))

\* the body of a response: field name -> value
NoBody == <<>>
ErrorBody(msg) == [error |-> msg]
InvalidBody == [error |-> "Datos invalidos", details |-> "fieldErrors"]
StorageMsg == "storage error"
FkMsg == "violates foreign key constraint"

Answer(op, arg, status, body) ==
  [op |-> op, arg |-> arg, status |-> status, body |-> body]

----------------------------------------------------------------------------
(* public.users and the handlers on it *)

\* column list `id, name, email, avatar_url AS "avatarUrl", created_at AS
\* "createdAt"' of the SELECT and RETURNING clauses (index.ts:355,374,515)
UserPublic(u) ==
  [id |-> u.id, name |-> u.name, email |-> u.email,
   avatarUrl |-> u.avatar_url, createdAt |-> u.created_at]

\* the row of the login SELECT: the public columns and password_hash
\* (index.ts:539)
LoginRow(u) ==
  [id |-> u.id, name |-> u.name, email |-> u.email,
   avatarUrl |-> u.avatar_url, createdAt |-> u.created_at,
   password_hash |-> u.password_hash]

KeepHash(row) == row

\* const { password_hash: _ph, ...user } = row (index.ts:547)
StripHash(row) == [f \in DOMAIN row \ {"password_hash"} |-> row[f]]

\* WHERE lower(email) = lower($1) (index.ts:506,539)
UsersByEmail(email) == {u \in users : Lower(u.email) = Lower(email)}

\* RegisterSchema (index.ts:490-495)
RegisterValid(b) ==
  /\ StrLen(b.name) >= 1
  /\ b.email # BadEmail
  /\ StrLen(b.password) >= 6

\* LoginSchema (index.ts:526-529)
LoginValid(b) ==
  /\ b.email # BadEmail
  /\ StrLen(b.password) >= 6

IdleSlot == [pc |-> "idle"]

\* rows[0] of a SELECT that matched no row
NoRow == [id |-> 0]

\* POST /api/auth/register up to the existence check (index.ts:497-511)
RegisterCheck(s, b, fail) ==
  /\ regs[s].pc = "idle"
  /\ IF ~RegisterValid(b)
       THEN /\ last' = Answer("register", [email |-> b.email], 400, InvalidBody)
            /\ UNCHANGED regs
       ELSE IF fail
         THEN /\ last' = Answer("register", [email |-> b.email], 500, ErrorBody(StorageMsg))
              /\ UNCHANGED regs
         ELSE IF UsersByEmail(b.email) # {}
           THEN /\ last' = Answer("register", [email |-> b.email], 409,
                                  ErrorBody("El email ya esta registrado"))
                /\ UNCHANGED regs
           ELSE /\ regs' = [regs EXCEPT ![s] = [pc |-> "insert", body |-> b]]
                /\ UNCHANGED last
  /\ issued' = IF ~RegisterValid(b) THEN 0
                ELSE IF regs'[s].pc = "insert" THEN issued ELSE 1
  /\ UNCHANGED <<poolVars, hostVars, dbVars, pwds, dels, histVars, puts, imgs>>

\* POST /api/auth/register from bcrypt.hash to the response (index.ts:513-522)
RegisterInsert(s, salt, fail) ==
  /\ regs[s].pc = "insert"
  /\ regs' = [regs EXCEPT ![s] = IdleSlot]
  /\ LET b == regs[s].body
         row == [id |-> Cardinality(users) + 1, name |-> b.name,
                 email |-> b.email, avatar_url |-> NULL, created_at |-> "now",
                 password_hash |-> BcryptHash(b.password, salt)]
     IN IF fail
          THEN /\ last' = Answer("register", [email |-> b.email], 500, ErrorBody(StorageMsg))
               /\ UNCHANGED users
          ELSE /\ Cardinality(users) < MaxUsers
               /\ users' = users \cup {row}
               /\ last' = Answer("register", [email |-> b.email], 201, UserPublic(row))
  /\ issued' = 2
  /\ UNCHANGED <<poolVars, hostVars, commentVars, recipes, favorites, ratings, nextRecipe, pwds,
                 dels, histVars, puts, imgs>>

\* POST /api/auth/login (index.ts:531-552); `pick' is the row LIMIT 1 keeps
Login(b, pick, fail) ==
  /\ IF UsersByEmail(b.email) = {} THEN pick = NoRow
                                   ELSE pick \in UsersByEmail(b.email)
  /\ last' =
       IF ~LoginValid(b) THEN Answer("login", b, 400, InvalidBody)
       ELSE IF fail THEN Answer("login", b, 500, ErrorBody(StorageMsg))
       ELSE IF pick = NoRow
         THEN Answer("login", b, 404, ErrorBody("Este email no esta registrado"))
       ELSE IF LoginRow(pick).password_hash = NULL
         THEN Answer("login", b, 401, ErrorBody("Cuenta sin contrasena"))
       ELSE IF ~BcryptCompare(b.password, LoginRow(pick).password_hash)
         THEN Answer("login", b, 401, ErrorBody("Contrasena incorrecta"))
       ELSE Answer("login", b, 200, StripHash(LoginRow(pick)))
  /\ issued' = IF ~LoginValid(b) THEN 0 ELSE 1
  /\ UNCHANGED <<poolVars, hostVars, dbVars, slotVars, histVars>>

\* the outcomes of a handler whose promise rejects: the framework sends no
\* response (status 0), or its error handler answers 500 with a page
Uncaught(op, arg) ==
  {Answer(op, arg, 0, NoBody),
   Answer(op, arg, 500, [html |-> "Internal Server Error"])}

\* GET /api/users/:id (index.ts:352-361); there is no try/catch: when the
\* statement throws, the promise of the handler rejects
GetUser(id, fail) ==
  /\ \E uncaught \in Uncaught("getUser", [id |-> id]) : last' =
       IF fail THEN uncaught
       ELSE IF \E u \in users : u.id = id
         THEN Answer("getUser", [id |-> id], 200,
                     UserPublic(CHOOSE u \in users : u.id = id))
       ELSE Answer("getUser", [id |-> id], 404, ErrorBody("Not found"))
  /\ issued' = 1
  /\ UNCHANGED <<poolVars, hostVars, dbVars, slotVars, histVars>>

ReplaceByName(table, id, name) ==
  {u \in table : u.id # id /\ u.name # name}
    \cup {[u EXCEPT !.name = name] : u \in {x \in table : x.id = id}}

\* UPDATE public.users SET name = $1 WHERE id = $2 (index.ts:374)
SetUserName(table, id, name) ==
  {IF u.id = id THEN [u EXCEPT !.name = name] ELSE u : u \in table}

\* PUT /api/users/:id (index.ts:364-384); name = NULL: no name in the body
PutUser(id, name, fail) ==
  LET arg == [id |-> id] IN
  /\ IF name = NULL \/ name = "" \/ Trim(name) = ""
       THEN /\ last' = Answer("putUser", arg, 400,
                              ErrorBody("El nombre es obligatorio"))
            /\ UNCHANGED users
       ELSE IF fail
         THEN /\ last' = Answer("putUser", arg, 500, ErrorBody(StorageMsg))
              /\ UNCHANGED users
         ELSE IF \E u \in users : u.id = id
           THEN LET after == SetUserName(users, id, Trim(name))
                    new == CHOOSE u \in after : u.id = id
                IN /\ users' = after
                   /\ last' = Answer("putUser", arg, 200, UserPublic(new))
           ELSE /\ last' = Answer("putUser", arg, 404,
                                  ErrorBody("Usuario no encontrado"))
                /\ UNCHANGED users
  /\ issued' = IF name = NULL \/ name = "" \/ Trim(name) = "" THEN 0 ELSE 1
  /\ UNCHANGED <<poolVars, hostVars, commentVars, recipes, favorites, ratings, nextRecipe, slotVars,
                 histVars>>

\* ChangePasswordSchema (index.ts:387-390)
ChangePasswordValid(b) ==
  /\ StrLen(b.currentPassword) >= 6
  /\ StrLen(b.newPassword) >= 6

\* PUT /api/users/:id/password up to the password check (index.ts:392-417);
\* bcrypt.compare throws on a hash that is not a string
PwdSelect(s, id, b, fail) ==
  LET arg == [id |-> id, body |-> b] IN
  /\ pwds[s].pc = "idle"
  /\ IF ~ChangePasswordValid(b)
       THEN /\ last' = Answer("putPassword", arg, 400, InvalidBody)
            /\ UNCHANGED pwds
       ELSE IF fail
         THEN /\ last' = Answer("putPassword", arg, 500, ErrorBody(StorageMsg))
              /\ UNCHANGED pwds
         ELSE IF ~\E u \in users : u.id = id
           THEN /\ last' = Answer("putPassword", arg, 404,
                                  ErrorBody("Usuario no encontrado"))
                /\ UNCHANGED pwds
           ELSE LET user == CHOOSE u \in users : u.id = id IN
                IF user.password_hash = NULL
                  THEN /\ last' = Answer("putPassword", arg, 500,
                                         ErrorBody("Illegal arguments"))
                       /\ UNCHANGED pwds
                  ELSE IF ~BcryptCompare(b.currentPassword, user.password_hash)
                    THEN /\ last' = Answer("putPassword", arg, 401,
                                ErrorBody("La contrasena actual es incorrecta"))
                         /\ UNCHANGED pwds
                    ELSE /\ pwds' = [pwds EXCEPT ![s] =
                                       [pc |-> "update", id |-> id, body |-> b]]
                         /\ UNCHANGED last
  /\ issued' = IF ~ChangePasswordValid(b) THEN 0
                ELSE IF pwds'[s].pc = "update" THEN issued ELSE 1
  /\ UNCHANGED <<poolVars, hostVars, dbVars, regs, dels, histVars, puts, imgs>>

\* PUT /api/users/:id/password from bcrypt.hash to the response
\* (index.ts:419-431)
PwdUpdate(s, salt, fail) ==
  /\ pwds[s].pc = "update"
  /\ pwds' = [pwds EXCEPT ![s] = IdleSlot]
  /\ LET id == pwds[s].id
         arg == [id |-> id, body |-> pwds[s].body]
         newPasswordHash == BcryptHash(pwds[s].body.newPassword, salt)
     IN IF fail
          THEN /\ last' = Answer("putPassword", arg, 500, ErrorBody(StorageMsg))
               /\ UNCHANGED users
          ELSE /\ users' = {IF u.id = id
                              THEN [u EXCEPT !.password_hash = newPasswordHash]
                              ELSE u : u \in users}
               /\ last' = Answer("putPassword", arg, 200,
                             [message |-> "Contrasena actualizada correctamente"])
  /\ issued' = 2
  /\ UNCHANGED <<poolVars, hostVars, commentVars, recipes, favorites, ratings, nextRecipe, regs, dels,
                 histVars, puts, imgs>>

----------------------------------------------------------------------------
(* public.recipes and the handlers on it *)

AnyCase == {"Facil", "Media", "Dificil", "facil", "media", "dificil"}

\* z.enum(["F\u00e1cil", "Media", "Dif\u00edcil"]) (index.ts:132), written
\* without the accents
Difficulties == {"Facil", "Media", "Dificil"}

\* a field that the JSON body does not carry, or a local that is undefined
UNDEFINED == "undefined"

\* a field whose value is not a string: [t |-> its JSON type, v |-> value]
Absent == [t |-> "undefined", v |-> 0]

\* a body of a recipe request that carries no field
NoFields ==
  [title |-> UNDEFINED, description |-> UNDEFINED, categoryId |-> Absent,
   imageUrl |-> UNDEFINED, ingredients |-> Absent, prepTime |-> UNDEFINED,
   cookTime |-> UNDEFINED, servings |-> Absent, difficulty |-> UNDEFINED,
   userId |-> -1]

\* Number(x) of a JSON number or string is NaN
NumberIsNaN(x) == x.t = "string" /\ x.v \notin {"3", "4", "0", ""}

\* z.coerce.number(): Number(x), written as a decimal numeral
\* (index.ts:123,131)
CoerceNumeral(x) ==
  IF x.t = "number"
    THEN CASE x.v = 3 -> "3" [] x.v = 4 -> "4" [] OTHER -> "0"
    ELSE CASE x.v = "3" -> "3" [] x.v = "4" -> "4" [] OTHER -> "0"

\* z.coerce.number().int().positive().optional() (index.ts:123,131)
PositiveIntValid(x) ==
  \/ x.t = "undefined"
  \/ /\ x.t \in {"number", "string"}
     /\ ~NumberIsNaN(x)
     /\ CoerceNumeral(x) # "0"

\* z.string().url() (index.ts:124)
IsUrl(str) == str \in {"http://img/1", "https://host/1", "https://host/2",
                       "https://host/3", "https://host/n"}

\* z.array(z.object({name: z.string(), amount: z.string()})).optional()
\* (index.ts:125-128)
IngredientsValid(x) ==
  \/ x.t = "undefined"
  \/ /\ x.t = "array"
     /\ \A i \in DOMAIN x.v : DOMAIN x.v[i] = {"name", "amount"}

\* z.string().optional(): a JSON null is not a string
OptionalString(str) == str # NULL

\* RecipeCreateSchema.partial() (index.ts:254): every field is optional, a
\* field that is present is checked as in RecipeCreateSchema
RecipePartialValid(b) ==
  /\ b.title = UNDEFINED \/ (b.title # NULL /\ StrLen(b.title) >= 1)
  /\ OptionalString(b.description)
  /\ PositiveIntValid(b.categoryId)
  /\ b.imageUrl = UNDEFINED \/ IsUrl(b.imageUrl)
  /\ IngredientsValid(b.ingredients)
  /\ OptionalString(b.prepTime)
  /\ OptionalString(b.cookTime)
  /\ PositiveIntValid(b.servings)
  /\ b.difficulty = UNDEFINED \/ b.difficulty \in Difficulties
  /\ b.userId = -1 \/ b.userId # 0

\* RecipeCreateSchema (index.ts:120-134): title and userId are required;
\* userId 0: a string that is not a UUID, -1: no userId
RecipeCreateValid(b) ==
  /\ RecipePartialValid(b)
  /\ b.title # UNDEFINED
  /\ b.userId # -1

\* parsed.data: the fields of the schema with the numbers coerced
ParsedData(b) ==
  [b EXCEPT
     !.categoryId = IF b.categoryId.t = "undefined" THEN UNDEFINED
                    ELSE CoerceNumeral(b.categoryId),
     !.servings = IF b.servings.t = "undefined" THEN UNDEFINED
                  ELSE CoerceNumeral(b.servings)]

\* JSON.stringify of a list of ingredients (index.ts:191,237,297);
\* JSON.stringify(undefined) is undefined
JsonStringify(x) ==
  IF x.t # "array" THEN UNDEFINED
  ELSE IF x.v = <<>> THEN "[]"
  ELSE IF Len(x.v) = 1 THEN "[{name,amount}]" ELSE "[{name,amount},...]"

\* x ?? null
OrNull(x) == IF x = UNDEFINED THEN NULL ELSE x

AnyRecipe(id) == recipes # {}

\* rows[0] of SELECT id FROM public.recipes WHERE id = $1 is defined
\* (index.ts:271-272, 340-341)
RecipeExists(id) == \E r \in recipes : r.id = id

\* the RETURNING column list of the recipe INSERT (index.ts:229-231)
RecipeReturning(r) ==
  [id |-> r.id, userId |-> r.user_id, categoryId |-> r.category_id,
   title |-> r.title, description |-> r.description,
   ingredients |-> r.ingredients, imageUrl |-> r.image_url,
   prepTime |-> r.prep_time, cookTime |-> r.cook_time,
   servings |-> r.servings, difficulty |-> r.difficulty,
   createdAt |-> r.created_at]

\* the row of INSERT INTO public.recipes with its parameters
\* (index.ts:226-243, 180-197); id and created_at are the store's defaults
InsertedRecipe(data, id) ==
  [id |-> id, user_id |-> data.userId,
   category_id |-> OrNull(data.categoryId), title |-> data.title,
   description |-> OrNull(data.description),
   ingredients |-> IF data.ingredients.t = "undefined" THEN NULL
                   ELSE JsonStringify(data.ingredients),
   image_url |-> OrNull(data.imageUrl), prep_time |-> OrNull(data.prepTime),
   cook_time |-> OrNull(data.cookTime), servings |-> OrNull(data.servings),
   difficulty |-> OrNull(data.difficulty), created_at |-> id]

\* POST /api/recipes (index.ts:207-249)
CreateRecipe(b, fail) ==
  LET row == InsertedRecipe(ParsedData(b), nextRecipe + 1)
      arg == [userId |-> b.userId, difficulty |-> b.difficulty]
  IN
  /\ IF ~RecipeCreateValid(b)
       THEN /\ last' = Answer("createRecipe", arg, 400, InvalidBody)
            /\ UNCHANGED <<recipes, nextRecipe>>
       ELSE IF fail
         THEN /\ last' = Answer("createRecipe", arg, 500, ErrorBody(StorageMsg))
              /\ UNCHANGED <<recipes, nextRecipe>>
         ELSE /\ nextRecipe < MaxRecipes
              /\ recipes' = recipes \cup {row}
              /\ nextRecipe' = nextRecipe + 1
              /\ last' = Answer("createRecipe", arg, 201, RecipeReturning(row))
  /\ issued' = IF ~RecipeCreateValid(b) THEN 0 ELSE 1
  /\ UNCHANGED <<poolVars, hostVars, commentVars, users, favorites, ratings,
                 slotVars, histVars>>

\* ORDER BY r.created_at DESC over a set of recipe rows (index.ts:480)
RECURSIVE NewestFirst(_)
NewestFirst(S) ==
  IF S = {} THEN <<>>
  ELSE LET m == CHOOSE x \in S : \A y \in S : y.created_at <= x.created_at
       IN <<m>> \o NewestFirst(S \ {m})

AllRecipes(userId) == recipes

\* WHERE r.user_id = $1 (index.ts:479)
RecipesOfUser(userId) == {r \in recipes : r.user_id = userId}

\* the column list of the per-user recipe SELECT (index.ts:473-476); no
\* recipe of the model has a category, so the LEFT JOIN yields a null name
UserRecipeRow(r) ==
  [id |-> r.id, title |-> r.title, description |-> r.description,
   categoryId |-> r.category_id, categoryName |-> NULL,
   imageUrl |-> r.image_url, ingredients |-> r.ingredients,
   prepTime |-> r.prep_time, cookTime |-> r.cook_time,
   servings |-> r.servings, difficulty |-> r.difficulty,
   createdAt |-> r.created_at, userId |-> r.user_id]

\* GET /api/users/:userId/recipes (index.ts:469-487)
GetUserRecipes(userId, fail) ==
  /\ last' =
       IF fail THEN Answer("getUserRecipes", [userId |-> userId], 500,
                           ErrorBody(StorageMsg))
       ELSE LET sorted == NewestFirst(RecipesOfUser(userId)) IN
            Answer("getUserRecipes", [userId |-> userId], 200,
                   [rows |-> [i \in DOMAIN sorted |-> UserRecipeRow(sorted[i])]])
  /\ issued' = 1
  /\ UNCHANGED <<poolVars, hostVars, dbVars, slotVars, histVars>>

\* rows of a table that reference recipe id: removed with the recipe by the
\* store's cascading relations (index.ts:343)
RowsOfRecipe(table, id) == {x \in BagToSet(table) : x.recipe_id = id}

KeepRows(table, id) == table

WithoutRecipe(table, id) ==
  [x \in BagToSet(table) \ RowsOfRecipe(table, id) |-> table[x]]

\* DELETE /api/recipes/:id up to the existence check (index.ts:336-341)
DeleteRecipeCheck(s, id, fail) ==
  /\ dels[s].pc = "idle"
  /\ IF fail
       THEN /\ last' = Answer("deleteRecipe", [id |-> id], 500,
                              ErrorBody(StorageMsg))
            /\ UNCHANGED dels
       ELSE IF ~RecipeExists(id)
         THEN /\ last' = Answer("deleteRecipe", [id |-> id], 404,
                                ErrorBody("Receta no encontrada"))
              /\ UNCHANGED dels
         ELSE /\ dels' = [dels EXCEPT ![s] = [pc |-> "delete", id |-> id]]
              /\ UNCHANGED last
  /\ issued' = IF dels'[s].pc = "delete" THEN issued ELSE 1
  /\ UNCHANGED <<poolVars, hostVars, dbVars, regs, pwds, histVars, puts, imgs>>

\* DELETE /api/recipes/:id: the DELETE statement and the response
\* (index.ts:344-348)
DeleteRecipeDelete(s, fail) ==
  LET id == dels[s].id IN
  /\ dels[s].pc = "delete"
  /\ dels' = [dels EXCEPT ![s] = IdleSlot]
  /\ IF fail
       THEN /\ last' = Answer("deleteRecipe", [id |-> id], 500,
                              ErrorBody(StorageMsg))
            /\ UNCHANGED <<recipes, favorites, ratings, comments, histVars>>
       ELSE /\ recipes' = {r \in recipes : r.id # id}
            /\ favorites' = WithoutRecipe(favorites, id)
            /\ ratings' = WithoutRecipe(ratings, id)
            /\ comments' = WithoutRecipe(comments, id)
            /\ last' = Answer("deleteRecipe", [id |-> id], 204, NoBody)
            /\ UNCHANGED histVars
  /\ issued' = 2
  /\ UNCHANGED <<poolVars, hostVars, users, nextRecipe, nextComment, regs,
                 pwds, puts, imgs>>

\* the fields PUT /api/recipes/:id can set, in the order the handler tests
\* them, each with its column (index.ts:279-314)
UpdatableFields ==
  << [field |-> "title", col |-> "title"],
     [field |-> "description", col |-> "description"],
     [field |-> "categoryId", col |-> "category_id"],
     [field |-> "imageUrl", col |-> "image_url"],
     [field |-> "ingredients", col |-> "ingredients"],
     [field |-> "prepTime", col |-> "prep_time"],
     [field |-> "cookTime", col |-> "cook_time"],
     [field |-> "servings", col |-> "servings"],
     [field |-> "difficulty", col |-> "difficulty"] >>

IsNotNull(data, f) ==
  IF f = "ingredients" THEN data[f].t # "null" ELSE data[f] # NULL

\* field !== undefined
IsDefined(data, f) ==
  IF f = "ingredients" THEN data[f].t # "undefined" ELSE data[f] # UNDEFINED

\* the updatable fields a body carries
PresentFields(data) ==
  {UpdatableFields[i].field : i \in
     {j \in DOMAIN UpdatableFields : data[UpdatableFields[j].field] #
        (IF UpdatableFields[j].field = "ingredients" THEN Absent
         ELSE UNDEFINED)}}

\* the value pushed for a field: ingredients are stringified (index.ts:297)
ParamOf(data, f) ==
  IF f = "ingredients" THEN JsonStringify(data[f]) ELSE data[f]

SamePlaceholder(updates, col, paramIndex) ==
  Append(updates, [col |-> col, ph |-> 1])

\* updates.push(`col = $${paramIndex++}`)
PushClause(updates, col, paramIndex) ==
  Append(updates, [col |-> col, ph |-> paramIndex])

\* the chain of `if (field !== undefined)' blocks from field i on
\* (index.ts:275-314)
RECURSIVE BuildFrom(_, _, _, _, _)
BuildFrom(data, i, updates, values, paramIndex) ==
  IF i > Len(UpdatableFields)
    THEN [updates |-> updates, values |-> values, paramIndex |-> paramIndex]
    ELSE LET e == UpdatableFields[i] IN
         IF IsDefined(data, e.field)
           THEN BuildFrom(data, i + 1, PushClause(updates, e.col, paramIndex),
                          Append(values, ParamOf(data, e.field)),
                          paramIndex + 1)
           ELSE BuildFrom(data, i + 1, updates, values, paramIndex)

\* updates = [], values = [], paramIndex = 1 and the chain (index.ts:275-314)
BuildUpdate(data) == BuildFrom(data, 1, <<>>, <<>>, 1)

\* values.push(id) and the statement UPDATE public.recipes SET
\* ${updates.join(', ')} WHERE id = $${paramIndex} with its parameters
\* (index.ts:320-328)
UpdateStatement(data, id) ==
  LET q == BuildUpdate(data)
  IN [set |-> q.updates, where |-> q.paramIndex,
      values |-> Append(q.values, id)]

\* a row after SET col = $ph, ... with the parameters params
SetColumns(r, set, params) ==
  [c \in DOMAIN r |->
     IF \E k \in DOMAIN set : set[k].col = c
       THEN params[set[CHOOSE k \in DOMAIN set : set[k].col = c].ph]
       ELSE r[c]]

UpdateAllRows(table, set, where, params) ==
  {SetColumns(r, set, params) : r \in table}

\* UPDATE public.recipes SET ... WHERE id = $where (index.ts:322-323)
UpdateWhereId(table, set, where, params) ==
  {IF r.id = params[where] THEN SetColumns(r, set, params) ELSE r :
     r \in table}

\* PUT /api/recipes/:id up to the answer that there is nothing to update
\* (index.ts:252-318)
PutRecipeCheck(s, id, b, fail) ==
  LET data == ParsedData(b)
      arg == [id |-> id, fields |-> Cardinality(PresentFields(data)),
              difficulty |-> b.difficulty]
  IN
  /\ puts[s].pc = "idle"
  /\ IF ~RecipePartialValid(b)
       THEN /\ last' = Answer("putRecipe", arg, 400, InvalidBody)
            /\ issued' = 0
            /\ UNCHANGED puts
       ELSE IF fail
         THEN /\ last' = Answer("putRecipe", arg, 500, ErrorBody(StorageMsg))
              /\ issued' = 1
              /\ UNCHANGED puts
         ELSE IF ~RecipeExists(id)
           THEN /\ last' = Answer("putRecipe", arg, 404,
                                  ErrorBody("Receta no encontrada"))
                /\ issued' = 1
                /\ UNCHANGED puts
           ELSE IF Len(BuildUpdate(data).updates) = 0
             THEN /\ last' = Answer("putRecipe", arg, 400,
                                    ErrorBody("No hay campos para actualizar"))
                  /\ issued' = 1
                  /\ UNCHANGED puts
             ELSE /\ puts' = [puts EXCEPT ![s] =
                                [pc |-> "update", id |-> id, data |-> data]]
                  /\ UNCHANGED <<last, issued>>
  /\ UNCHANGED <<poolVars, hostVars, dbVars, regs, pwds, dels, imgs, histVars>>

\* PUT /api/recipes/:id: the UPDATE statement and the response
\* (index.ts:320-332); rows[0] is undefined when no row matched
PutRecipeUpdate(s, fail) ==
  LET id == puts[s].id
      arg == [id |-> id, fields |-> Cardinality(PresentFields(puts[s].data)),
              difficulty |-> puts[s].data.difficulty]
      q == UpdateStatement(puts[s].data, id)
      after == UpdateWhereId(recipes, q.set, q.where, q.values)
      rows == {r \in after : r.id = id}
  IN
  /\ puts[s].pc = "update"
  /\ puts' = [puts EXCEPT ![s] = IdleSlot]
  /\ issued' = 2
  /\ IF fail
       THEN /\ last' = Answer("putRecipe", arg, 500, ErrorBody(StorageMsg))
            /\ UNCHANGED recipes
       ELSE /\ recipes' = after
            /\ last' = Answer("putRecipe", arg, 200,
                              IF rows = {} THEN NoBody
                              ELSE RecipeReturning(CHOOSE r \in rows : TRUE))
  /\ UNCHANGED <<poolVars, hostVars, commentVars, users, favorites, ratings,
                 nextRecipe, regs, pwds, dels, imgs, histVars>>

----------------------------------------------------------------------------
(* The upload middleware, the image host and the handlers that upload *)

\* limits.fileSize (index.ts:17)
FileSizeLimit == 5 * 1024 * 1024

\* req.file is undefined: the request carries no `image' part
NoFile == [size |-> 0, mimetype |-> <<>>]

\* String.startsWith on a string written as a sequence of tokens
StartsWith(str, prefix) ==
  /\ Len(str) >= Len(prefix)
  /\ SubSeq(str, 1, Len(prefix)) = prefix

AcceptAll(file) == TRUE

\* fileFilter (index.ts:19-26)
FileFilter(file) == StartsWith(file.mimetype, <<"image", "/">>)

\* upload.single('image') (index.ts:14-27, 43, 137): the outcome of the
\* middleware for the file of a request
Multer(file) ==
  IF file = NoFile THEN "none"
  ELSE IF ~FileFilter(file) THEN "rejected"
  ELSE IF file.size > FileSizeLimit THEN "rejected"
  ELSE "accepted"

\* the error the middleware passes on: no handler runs and the framework
\* answers 500
MulterBody == ErrorBody("upload rejected")
UploadMsg == "image host error"

\* result.secure_url of the k-th asset
AssetUrl(k) ==
  CASE k = 1 -> "https://host/1"
    [] k = 2 -> "https://host/2"
    [] k = 3 -> "https://host/3"
    [] OTHER -> "https://host/n"

\* the asset cloudinary.uploader.upload stores for a file (index.ts:54-57)
NewAsset(file) == [id |-> Cardinality(hosted) + 1, file |-> file]

\* POST /api/upload (index.ts:43-67); ok: the image host accepts the upload
UploadImage(file, ok) ==
  LET arg == [file |-> file]
      asset == NewAsset(file)
  IN
  /\ IF Multer(file) = "rejected"
       THEN /\ last' = Answer("upload", arg, 500, MulterBody)
            /\ UNCHANGED hostVars
       ELSE IF file = NoFile
         THEN /\ last' = Answer("upload", arg, 400,
                           ErrorBody("No se proporciono ninguna imagen"))
              /\ UNCHANGED hostVars
         ELSE /\ provided' = provided \cup {file}
              /\ IF ok
                   THEN /\ Cardinality(hosted) < MaxImages
                        /\ hosted' = hosted \cup {asset}
                        /\ last' = Answer("upload", arg, 200,
                                          [url |-> AssetUrl(asset.id),
                                           publicId |-> asset.id])
                   ELSE /\ last' = Answer("upload", arg, 500,
                                     ErrorBody("Error al subir la imagen"))
                        /\ UNCHANGED hosted
  /\ issued' = 0
  /\ UNCHANGED <<poolVars, dbVars, slotVars, histVars>>

\* the request of a with-image slot, as its answer describes it
ImageArg(slot) ==
  [file |-> slot.file, uploads |-> slot.uploads, asset |-> slot.asset,
   difficulty |-> slot.body.difficulty]

\* POST /api/recipes/with-image up to the end of the upload
\* (index.ts:137-150, 200-203)
WithImageUpload(s, file, b, ok) ==
  LET asset == NewAsset(file)
      slot == [pc |-> "insert", file |-> file, body |-> b,
               imageUrl |-> NULL, uploads |-> 0, asset |-> 0]
      tried == [slot EXCEPT !.uploads = 1]
      done == [tried EXCEPT !.imageUrl = AssetUrl(asset.id),
                            !.asset = asset.id]
  IN
  /\ imgs[s].pc = "idle"
  /\ IF Multer(file) = "rejected"
       THEN /\ last' = Answer("createWithImage", ImageArg(slot), 500,
                              MulterBody)
            /\ issued' = 0
            /\ UNCHANGED <<hostVars, imgs>>
       ELSE IF file = NoFile
         THEN /\ imgs' = [imgs EXCEPT ![s] = slot]
              /\ UNCHANGED <<hostVars, last, issued>>
         ELSE /\ provided' = provided \cup {file}
              /\ IF ok
                   THEN /\ Cardinality(hosted) < MaxImages
                        /\ hosted' = hosted \cup {asset}
                        /\ imgs' = [imgs EXCEPT ![s] = done]
                        /\ UNCHANGED <<last, issued>>
                   ELSE /\ last' = Answer("createWithImage", ImageArg(tried),
                                          500, ErrorBody(UploadMsg))
                        /\ issued' = 0
                        /\ UNCHANGED <<hosted, imgs>>
  /\ UNCHANGED <<poolVars, dbVars, regs, pwds, dels, puts, histVars>>

\* JSON.parse throws on a text that is not JSON (index.ts:158)
JsonThrows(x) == x.t = "string" /\ x.v \notin {"", "[]", "[rice]", "5"}

\* JSON.parse of a form field
JsonParse(x) ==
  CASE x.v = "[]" -> [t |-> "array", v |-> <<>>]
    [] x.v = "[rice]" ->
         [t |-> "array", v |-> <<[name |-> "rice", amount |-> "1 cup"]>>]
    [] OTHER -> [t |-> "number", v |-> 5]

\* field ? Number(field) : undefined (index.ts:156-157)
FormNumber(x) ==
  IF x.t = "undefined" \/ x.v = "" THEN Absent
  ELSE IF NumberIsNaN(x) THEN [t |-> "NaN", v |-> 0]
  ELSE [t |-> "number",
        v |-> CASE x.v = "3" -> 3 [] x.v = "4" -> 4 [] OTHER -> 0]

BodyUrlFirst(b, imageUrl) ==
  [b EXCEPT
     !.imageUrl = IF b.imageUrl # UNDEFINED THEN b.imageUrl ELSE imageUrl,
     !.servings = FormNumber(b.servings),
     !.categoryId = FormNumber(b.categoryId),
     !.ingredients = IF b.ingredients.t = "undefined" \/ b.ingredients.v = ""
                       THEN Absent ELSE JsonParse(b.ingredients)]

\* formData (index.ts:153-159), when JSON.parse does not throw
FormData(b, imageUrl) ==
  [b EXCEPT
     !.imageUrl = IF imageUrl # NULL THEN imageUrl ELSE b.imageUrl,
     !.servings = FormNumber(b.servings),
     !.categoryId = FormNumber(b.categoryId),
     !.ingredients = IF b.ingredients.t = "undefined" \/ b.ingredients.v = ""
                       THEN Absent ELSE JsonParse(b.ingredients)]

\* POST /api/recipes/with-image from the form data to the response
\* (index.ts:152-203)
WithImageInsert(s, fail) ==
  LET slot == imgs[s]
      arg == ImageArg(slot)
      formData == FormData(slot.body, slot.imageUrl)
      row == InsertedRecipe(ParsedData(formData), nextRecipe + 1)
  IN
  /\ slot.pc = "insert"
  /\ imgs' = [imgs EXCEPT ![s] = IdleSlot]
  /\ IF JsonThrows(slot.body.ingredients)
       THEN /\ last' = Answer("createWithImage", arg, 500,
                              ErrorBody("Unexpected token"))
            /\ issued' = 0
            /\ UNCHANGED <<recipes, nextRecipe>>
       ELSE IF ~RecipeCreateValid(formData)
         THEN /\ last' = Answer("createWithImage", arg, 400, InvalidBody)
              /\ issued' = 0
              /\ UNCHANGED <<recipes, nextRecipe>>
         ELSE /\ issued' = 1
              /\ IF fail
                   THEN /\ last' = Answer("createWithImage", arg, 500,
                                          ErrorBody(StorageMsg))
                        /\ UNCHANGED <<recipes, nextRecipe>>
                   ELSE /\ nextRecipe < MaxRecipes
                        /\ recipes' = recipes \cup {row}
                        /\ nextRecipe' = nextRecipe + 1
                        /\ last' = Answer("createWithImage", arg, 201,
                                          RecipeReturning(row))
  /\ UNCHANGED <<poolVars, hostVars, commentVars, users, favorites, ratings,
                 regs, pwds, dels, puts, histVars>>

----------------------------------------------------------------------------
(* public.comments and the handler that adds to it *)

\* CommentCreateSchema (index.ts:620-623); userId 0: not a UUID
CommentCreateValid(b) ==
  /\ b.content # UNDEFINED /\ StrLen(b.content) >= 1
  /\ b.userId # 0

\* POST /api/recipes/:id/comments (index.ts:650-666).  The statement throws
\* when the recipe is not stored.
PostComment(id, b, fail) ==
  LET arg == [id |-> id]
      row == [id |-> nextComment + 1, recipe_id |-> id, user_id |-> b.userId,
              content |-> b.content]
  IN
  /\ IF ~CommentCreateValid(b)
       THEN /\ last' = Answer("postComment", arg, 400, InvalidBody)
            /\ UNCHANGED commentVars
       ELSE IF fail \/ ~RecipeExists(id)
         THEN /\ last' = Answer("postComment", arg, 500,
                                ErrorBody(IF fail THEN StorageMsg ELSE FkMsg))
              /\ UNCHANGED commentVars
         ELSE /\ nextComment < MaxComments
              /\ comments' = comments (+) SetToBag({row})
              /\ nextComment' = nextComment + 1
              /\ last' = Answer("postComment", arg, 201,
                                [id |-> row.id, content |-> row.content,
                                 createdAt |-> "now", userId |-> row.user_id])
  /\ issued' = IF ~CommentCreateValid(b) THEN 0 ELSE 1
  /\ UNCHANGED <<poolVars, hostVars, users, recipes, favorites, ratings,
                 nextRecipe, slotVars, histVars>>

----------------------------------------------------------------------------
(* public.favorites and the handlers on it *)

FavRow(userId, recipeId) == [user_id |-> userId, recipe_id |-> recipeId]

InsertAlways(table, row) == table (+) SetToBag({row})

\* INSERT ... ON CONFLICT DO NOTHING: the row is added unless a row with the
\* same key is stored (index.ts:449)
InsertOrNothing(table, row) ==
  IF BagIn(row, table) THEN table ELSE table (+) SetToBag({row})

DeleteRowsOfUser(table, row) ==
  [x \in {y \in BagToSet(table) : y.user_id # row.user_id} |-> table[x]]

\* DELETE ... WHERE user_id = $1 AND recipe_id = $2 (index.ts:461)
DeleteRow(table, row) == [x \in BagToSet(table) \ {row} |-> table[x]]

\* POST /api/users/:userId/favorites (index.ts:444-456); recipeId 0: no
\* recipeId in the body.  The statement throws when the recipe is not stored.
PostFavorite(userId, recipeId, fail) ==
  LET arg == [userId |-> userId, recipeId |-> recipeId]
      row == FavRow(userId, recipeId)
  IN
  /\ IF fail \/ ~RecipeExists(recipeId)
       THEN /\ last' = Answer("postFavorite", arg, 400,
                              ErrorBody(IF fail THEN StorageMsg ELSE FkMsg))
            /\ UNCHANGED favorites
       ELSE /\ favorites' = InsertOrNothing(favorites, row)
            /\ last' = Answer("postFavorite", arg, 201,
                 IF BagIn(row, favorites)
                   THEN [userId |-> userId, recipeId |-> recipeId]
                   ELSE [userId |-> userId, recipeId |-> recipeId,
                         createdAt |-> "now"])
  /\ issued' = 1
  /\ UNCHANGED <<poolVars, hostVars, commentVars, users, recipes, ratings, nextRecipe, slotVars,
                 histVars>>

\* DELETE /api/users/:userId/favorites/:recipeId (index.ts:458-466)
DeleteFavorite(userId, recipeId, fail) ==
  LET arg == [userId |-> userId, recipeId |-> recipeId] IN
  /\ IF fail
       THEN /\ last' = Answer("deleteFavorite", arg, 400, ErrorBody(StorageMsg))
            /\ UNCHANGED favorites
       ELSE /\ favorites' = DeleteRow(favorites, FavRow(userId, recipeId))
            /\ last' = Answer("deleteFavorite", arg, 204, NoBody)
  /\ issued' = 1
  /\ UNCHANGED <<poolVars, hostVars, commentVars, users, recipes, ratings, nextRecipe, slotVars,
                 histVars>>

\* GET /api/users/:userId/favorites (index.ts:435-442); there is no
\* try/catch: when the statement throws, the promise of the handler rejects
GetFavorites(userId, fail) ==
  /\ \E uncaught \in Uncaught("getFavorites", [userId |-> userId]) : last' =
       IF fail THEN uncaught
       ELSE Answer("getFavorites", [userId |-> userId], 200,
              [rows |-> {[userId |-> x.user_id, recipeId |-> x.recipe_id,
                          copies |-> favorites[x]] :
                         x \in {y \in BagToSet(favorites) : y.user_id = userId}}])
  /\ issued' = 1
  /\ UNCHANGED <<poolVars, hostVars, dbVars, slotVars, histVars>>

----------------------------------------------------------------------------
(* The router: the routes index.ts registers *)

Routes ==
  { <<"GET", "/api/health">>, <<"POST", "/api/upload">>,
    <<"GET", "/api/categories">>, <<"GET", "/api/recipes">>,
    <<"GET", "/api/recipes/:id">>, <<"POST", "/api/recipes/with-image">>,
    <<"POST", "/api/recipes">>, <<"PUT", "/api/recipes/:id">>,
    <<"DELETE", "/api/recipes/:id">>, <<"GET", "/api/users/:id">>,
    <<"PUT", "/api/users/:id">>, <<"PUT", "/api/users/:id/password">>,
    <<"GET", "/api/users/:userId/favorites">>,
    <<"POST", "/api/users/:userId/favorites">>,
    <<"DELETE", "/api/users/:userId/favorites/:recipeId">>,
    <<"GET", "/api/users/:userId/recipes">>,
    <<"POST", "/api/auth/register">>, <<"POST", "/api/auth/login">>,
    <<"GET", "/api/recipes/:id/ratings">>,
    <<"GET", "/api/users/:userId/ratings/:recipeId">>,
    <<"PUT", "/api/users/:userId/ratings/:recipeId">>,
    <<"DELETE", "/api/users/:userId/ratings/:recipeId">>,
    <<"GET", "/api/recipes/:id/comments">>,
    <<"POST", "/api/recipes/:id/comments">> }

MyRecipesPaths ==
  {"/api/users/:userId/my-recipes", "/api/users/:userId/my-recipes/:recipeId"}

\* a request that matches no registered route: no handler runs and the
\* framework answers 404
Unrouted(method, path, userId, recipeId) ==
  /\ <<method, path>> \notin Routes
  /\ last' = Answer("unrouted", [method |-> method, path |-> path], 404,
                    NoBody)
  /\ issued' = 0
  /\ UNCHANGED <<poolVars, hostVars, dbVars, slotVars, histVars>>

----------------------------------------------------------------------------
(* public.ratings and the handlers on it *)

\* the `rating' field of a request body: a JSON number or a JSON string
RatingInputs ==
  {[t |-> "number", v |-> 0], [t |-> "number", v |-> 1],
   [t |-> "number", v |-> 5],
   [t |-> "number", v |-> 6], [t |-> "string", v |-> "2"],
   [t |-> "string", v |-> "five"]}

\* Number(input) is NaN: a string that is not a numeral
IsNaN(x) == x.t = "string" /\ x.v \notin {"2", "5"}

\* z.coerce.number(): Number(input), for an input that is not NaN
\* (index.ts:555)
CoerceNumber(x) ==
  IF x.t = "number" THEN x.v
  ELSE CASE x.v = "5" -> 5
         [] x.v = "2" -> 2
         [] OTHER -> 0

\* RatingSchema: .int().min(1).max(5) on the coerced number (index.ts:555)
RatingValid(x) == ~IsNaN(x) /\ CoerceNumber(x) >= 1 /\ CoerceNumber(x) <= 5

RatingRow(userId, recipeId, n) ==
  [user_id |-> userId, recipe_id |-> recipeId, rating |-> n]

RatingsOfPair(userId, recipeId) ==
  {x \in BagToSet(ratings) : x.user_id = userId /\ x.recipe_id = recipeId}

InsertRating(table, row) == table (+) SetToBag({row})

\* INSERT ... ON CONFLICT (user_id, recipe_id) DO UPDATE SET rating =
\* EXCLUDED.rating (index.ts:596-598)
UpsertRating(table, row) ==
  LET conflict == {x \in BagToSet(table) :
                     x.user_id = row.user_id /\ x.recipe_id = row.recipe_id}
  IN IF conflict = {} THEN table (+) SetToBag({row})
     ELSE LET old == CHOOSE x \in conflict : TRUE
          IN (table (-) SetToBag({old})) (+) SetToBag({row})

\* PUT /api/users/:userId/ratings/:recipeId (index.ts:589-606).  The
\* statement throws when the recipe is not stored.
PutRating(userId, recipeId, input, fail) ==
  LET rating == CoerceNumber(input)
      row == RatingRow(userId, recipeId, rating)
      p == <<userId, recipeId>>
      old == RatingsOfPair(userId, recipeId)
      arg == [userId |-> userId, recipeId |-> recipeId,
              replaced |-> IF old = {} THEN 0
                           ELSE (CHOOSE x \in old : TRUE).rating]
  IN
  /\ IF ~RatingValid(input)
       THEN /\ last' = Answer("putRating", arg, 400,
                              ErrorBody("Datos invalidos"))
            /\ UNCHANGED <<ratings, histVars>>
       ELSE IF fail \/ ~RecipeExists(recipeId)
         THEN /\ last' = Answer("putRating", arg, 500,
                                ErrorBody(IF fail THEN StorageMsg ELSE FkMsg))
              /\ UNCHANGED <<ratings, histVars>>
         ELSE /\ ratings' = UpsertRating(ratings, row)
              /\ lastPut' = [lastPut EXCEPT ![p] = rating]
              /\ last' = Answer("putRating", arg, 200,
                                [userId |-> userId, recipeId |-> recipeId,
                                 rating |-> rating])
  /\ issued' = IF ~RatingValid(input) THEN 0 ELSE 1
  /\ UNCHANGED <<poolVars, hostVars, commentVars, users, recipes, favorites, nextRecipe, slotVars>>

\* DELETE /api/users/:userId/ratings/:recipeId (index.ts:609-617)
DeleteRating(userId, recipeId, fail) ==
  LET arg == [userId |-> userId, recipeId |-> recipeId] IN
  /\ IF fail
       THEN /\ last' = Answer("deleteRating", arg, 500, ErrorBody(StorageMsg))
            /\ UNCHANGED <<ratings, histVars>>
       ELSE /\ ratings' = [x \in BagToSet(ratings) \
                                   RatingsOfPair(userId, recipeId) |-> ratings[x]]
            /\ last' = Answer("deleteRating", arg, 204, NoBody)
            /\ UNCHANGED histVars
  /\ issued' = 1
  /\ UNCHANGED <<poolVars, hostVars, commentVars, users, recipes, favorites, nextRecipe, slotVars>>

\* GET /api/users/:userId/ratings/:recipeId (index.ts:574-586); rating 0
\* stands for the JSON null of `{ rating: null }'
GetUserRating(userId, recipeId, fail) ==
  LET arg == [userId |-> userId, recipeId |-> recipeId]
      rows == RatingsOfPair(userId, recipeId)
  IN
  /\ last' =
       IF fail THEN Answer("getUserRating", arg, 500, ErrorBody(StorageMsg))
       ELSE IF rows = {} THEN Answer("getUserRating", arg, 200, [rating |-> 0])
       ELSE Answer("getUserRating", arg, 200,
                   [rating |-> (CHOOSE x \in rows : TRUE).rating])
  /\ issued' = 1
  /\ UNCHANGED <<poolVars, hostVars, dbVars, slotVars, histVars>>

\* SUM(rating) and COUNT(*) over the rows of a bag
RECURSIVE BagSum(_, _)
BagSum(table, S) ==
  IF S = {} THEN 0
  ELSE LET x == CHOOSE y \in S : TRUE
       IN x.rating * table[x] + BagSum(table, S \ {x})

RECURSIVE BagCount(_, _)
BagCount(table, S) ==
  IF S = {} THEN 0
  ELSE LET x == CHOOSE y \in S : TRUE
       IN table[x] + BagCount(table, S \ {x})

TruncateCents(sum, n) == (100 * sum) \div n

\* AVG(rating)::numeric(10,2): the mean rounded half up to two decimals, as
\* a number of hundredths (index.ts:562)
RoundCents(sum, n) == (200 * sum + n) \div (2 * n)

\* the body GET /api/recipes/:id/ratings answers from the rows of a table
\* (index.ts:561-567).  `average' is in hundredths; AVG over no row is null
\* and is answered as 0.
RatingsBody(table, id) ==
  LET rows == RowsOfRecipe(table, id)
      count == BagCount(table, rows)
      avgIsNull == count = 0
      avg == RoundCents(BagSum(table, rows), count)
  IN [average |-> IF avgIsNull THEN 0 ELSE avg, count |-> count]

\* GET /api/recipes/:id/ratings (index.ts:558-571)
GetRecipeRatings(id, fail) ==
  /\ last' =
       IF fail THEN Answer("getRecipeRatings", [id |-> id], 500,
                           ErrorBody(StorageMsg))
       ELSE Answer("getRecipeRatings", [id |-> id], 200,
                   RatingsBody(ratings, id))
  /\ issued' = 1
  /\ UNCHANGED <<poolVars, hostVars, dbVars, slotVars, histVars>>

----------------------------------------------------------------------------
(* Specifications *)

NoAnswer == Answer("none", <<>>, 0, NoBody)

Pairs == UserIds \X RecipeIds

\* a user row stored before the server started, without a password hash
LegacyUser ==
  [id |-> 1, name |-> "Ann", email |-> <<"b">>, avatar_url |-> NULL,
   created_at |-> "old", password_hash |-> NULL]

\* a recipe row stored before the server started
StoredRecipe(id) ==
  [id |-> id, user_id |-> 1, category_id |-> NULL, title |-> "Paella",
   description |-> NULL, ingredients |-> NULL, image_url |-> NULL,
   prep_time |-> NULL, cook_time |-> NULL, servings |-> NULL,
   difficulty |-> "Media", created_at |-> id]

\* a rating row stored before the server started, of a user that sends no
\* request
StoredRating == [user_id |-> 0, recipe_id |-> 1, rating |-> 1]

InitPool ==
  /\ qpc = [c \in Calls |-> "idle"]
  /\ qclient = [c \in Calls |-> 0]
  /\ checkedOut = {}

InitRequests ==
  /\ regs = [s \in Slots |-> IdleSlot]
  /\ pwds = [s \in Slots |-> IdleSlot]
  /\ dels = [s \in Slots |-> IdleSlot]
  /\ puts = [s \in Slots |-> IdleSlot]
  /\ imgs = [s \in Slots |-> IdleSlot]
  /\ lastPut = [p \in Pairs |-> 0]
  /\ last = NoAnswer
  /\ issued = 0
  /\ comments = EmptyBag /\ nextComment = 0
  /\ hosted = {} /\ provided = {}

InitEmpty ==
  /\ InitPool /\ InitRequests
  /\ users = {} /\ recipes = {} /\ nextRecipe = 0
  /\ favorites = EmptyBag /\ ratings = EmptyBag

\* query() and the pool
NextDb ==
  \/ \E c \in Calls : QueryCall(c)
  \/ \E c \in Calls : QueryConnect(c)
  \/ \E c \in Calls : QueryConnectFail(c)
  \/ \E c \in Calls, ok \in BOOLEAN : QueryStatement(c, ok)
  \/ \E c \in Calls : QueryFinally(c)

SpecDb == InitEmpty /\ [][NextDb]_vars

\* registration and login, with registrations interleaving
InitAuth ==
  /\ InitPool /\ InitRequests
  /\ users \in {{}, {LegacyUser}}
  /\ recipes = {} /\ nextRecipe = 0
  /\ favorites = EmptyBag /\ ratings = EmptyBag

RegisterBodies ==
  [name : {"", "Ann"}, email : {<<"a">>, <<"A">>, BadEmail},
   password : Passwords]

LoginBodies == [email : Emails \cup {BadEmail}, password : Passwords]

NextAuth ==
  \/ \E s \in Slots, b \in RegisterBodies, fail \in BOOLEAN :
       RegisterCheck(s, b, fail)
  \/ \E s \in Slots, salt \in Salts, fail \in BOOLEAN :
       RegisterInsert(s, salt, fail)
  \/ \E b \in LoginBodies, pick \in users \cup {NoRow}, fail \in BOOLEAN :
       Login(b, pick, fail)

SpecAuth == InitAuth /\ [][NextAuth]_vars

\* every handler that answers with user data and every handler that deletes
\* rows, one request at a time
InitUsers ==
  /\ InitPool /\ InitRequests
  /\ users = {LegacyUser}
  /\ recipes = {StoredRecipe(1)} /\ nextRecipe = 1
  /\ favorites = SetToBag({FavRow(1, 1)})
  /\ ratings = SetToBag({RatingRow(1, 1, 5)})

OneSlot == {1}

PasswordBodies ==
  [currentPassword : {"12345", "secret1"}, newPassword : {"secret2"}]

NextUsers ==
  \/ \E b \in [name : {"", "Ann"}, email : {<<"a">>, BadEmail},
               password : {"12345", "secret1"}], fail \in BOOLEAN :
       RegisterCheck(1, b, fail)
  \/ \E salt \in Salts, fail \in BOOLEAN : RegisterInsert(1, salt, fail)
  \/ \E b \in [email : {<<"A">>, <<"B">>, BadEmail}, password : Passwords],
        pick \in users \cup {NoRow}, fail \in BOOLEAN :
       Login(b, pick, fail)
  \/ \E id \in 1..(MaxUsers + 1), fail \in BOOLEAN : GetUser(id, fail)
  \/ \E id \in 1..(MaxUsers + 1), name \in {NULL, "   ", " Bob "},
        fail \in BOOLEAN :
       PutUser(id, name, fail)
  \/ \E id \in 1..(MaxUsers + 1), b \in PasswordBodies, fail \in BOOLEAN :
       PwdSelect(1, id, b, fail)
  \/ \E salt \in Salts, fail \in BOOLEAN : PwdUpdate(1, salt, fail)
  \/ \E fail \in BOOLEAN : DeleteFavorite(1, 1, fail)
  \/ \E fail \in BOOLEAN : DeleteRating(1, 1, fail)
  \/ \E fail \in BOOLEAN : DeleteRecipeCheck(1, 1, fail)
  \/ \E fail \in BOOLEAN : DeleteRecipeDelete(1, fail)

SpecUsers == InitUsers /\ [][NextUsers]_vars

\* favorites of stored recipes, with recipe deletion
InitFav ==
  /\ InitPool /\ InitRequests
  /\ users = {}
  /\ recipes = {StoredRecipe(id) : id \in RecipeIds}
  /\ nextRecipe = MaxRecipes
  /\ favorites = EmptyBag /\ ratings = EmptyBag

NextFav ==
  \/ \E u \in UserIds, r \in {0} \cup RecipeIds, fail \in BOOLEAN :
       PostFavorite(u, r, fail)
  \/ \E u \in UserIds, r \in RecipeIds, fail \in BOOLEAN :
       DeleteFavorite(u, r, fail)
  \/ \E u \in UserIds, fail \in BOOLEAN : GetFavorites(u, fail)
  \/ \E id \in RecipeIds, fail \in BOOLEAN : DeleteRecipeCheck(1, id, fail)
  \/ \E fail \in BOOLEAN : DeleteRecipeDelete(1, fail)

SpecFav == InitFav /\ [][NextFav]_vars

\* recipes by author and the saved-list paths
RecipeBodies ==
  {[NoFields EXCEPT !.title = t, !.difficulty = d, !.userId = u] :
     t \in {NULL, "", "Paella"}, d \in {"Media", "Dura"},
     u \in {0} \cup UserIds}

NextRecipes ==
  \/ \E b \in RecipeBodies, fail \in BOOLEAN : CreateRecipe(b, fail)
  \/ \E u \in UserIds, fail \in BOOLEAN : GetUserRecipes(u, fail)
  \/ \E r \in RecipeIds, fail \in BOOLEAN : PostFavorite(1, r, fail)
  \/ \E m \in {"GET", "POST", "DELETE"}, path \in MyRecipesPaths,
        u \in UserIds, r \in RecipeIds : Unrouted(m, path, u, r)

SpecRecipes == InitEmpty /\ [][NextRecipes]_vars

\* ratings of a stored recipe, with recipe deletion
InitRatings ==
  /\ InitPool /\ InitRequests
  /\ users = {}
  /\ recipes = {StoredRecipe(1)} /\ nextRecipe = 1
  /\ favorites = EmptyBag
  /\ ratings \in {EmptyBag, SetToBag({StoredRating})}

\* recipe 1 is stored, recipe 2 is not
RatedIds == {1, 2}

NextRatings ==
  \/ \E u \in UserIds, r \in RatedIds, x \in RatingInputs, fail \in BOOLEAN :
       PutRating(u, r, x, fail)
  \/ \E u \in UserIds, r \in RatedIds, fail \in BOOLEAN :
       DeleteRating(u, r, fail)
  \/ \E u \in UserIds, r \in RatedIds, fail \in BOOLEAN :
       GetUserRating(u, r, fail)
  \/ \E r \in RatedIds, fail \in BOOLEAN : GetRecipeRatings(r, fail)
  \/ \E id \in RatedIds, fail \in BOOLEAN : DeleteRecipeCheck(1, id, fail)
  \/ \E fail \in BOOLEAN : DeleteRecipeDelete(1, fail)

SpecRatings == InitRatings /\ [][NextRatings]_vars

\* edits of a stored recipe, with edits and a deletion interleaving
StoredFavorite == FavRow(1, 2)

InitEdit ==
  /\ InitPool /\ InitRequests
  /\ users = {LegacyUser}
  /\ recipes = {StoredRecipe(id) : id \in RecipeIds}
  /\ nextRecipe = MaxRecipes
  /\ favorites = SetToBag({StoredFavorite})
  /\ ratings = SetToBag({StoredRating})

Number(n) == [t |-> "number", v |-> n]
String(str) == [t |-> "string", v |-> str]
Array(seq) == [t |-> "array", v |-> seq]

Rice == [name |-> "rice", amount |-> "1 cup"]

AllNine ==
  [title |-> "Arroz", description |-> "rica", categoryId |-> String("3"),
   imageUrl |-> "http://img/1", ingredients |-> Array(<<Rice>>),
   prepTime |-> "10 min", cookTime |-> "20 min", servings |-> Number(4),
   difficulty |-> "Dificil", userId |-> -1]

\* bodies that pass RecipeCreateSchema.partial() and set a field
EditBodies ==
  { [NoFields EXCEPT !.title = "Tortilla", !.userId = 2],
    [NoFields EXCEPT !.difficulty = "Facil", !.servings = String("3")],
    AllNine }

\* bodies that pass the schema and set no field
EmptyBodies == {NoFields, [NoFields EXCEPT !.userId = 2]}

\* bodies that the schema rejects
BadBodies ==
  { [NoFields EXCEPT !.userId = 0],
    [NoFields EXCEPT !.title = ""],
    [NoFields EXCEPT !.difficulty = "Dura"],
    [AllNine EXCEPT !.servings = Number(0)],
    [NoFields EXCEPT !.imageUrl = "not a url"],
    [NoFields EXCEPT !.ingredients = String("rice")],
    [NoFields EXCEPT !.description = NULL] }

\* the path parameter: the first stored recipe or an id that is not stored
EditedIds == {1, MaxRecipes + 1}

NextEdit ==
  \/ \E s \in Slots, id \in EditedIds, fail \in BOOLEAN,
        b \in EditBodies \cup EmptyBodies \cup BadBodies :
       PutRecipeCheck(s, id, b, fail)
  \/ \E s \in Slots, fail \in BOOLEAN : PutRecipeUpdate(s, fail)
  \/ \E id \in EditedIds, fail \in BOOLEAN : DeleteRecipeCheck(1, id, fail)
  \/ \E fail \in BOOLEAN : DeleteRecipeDelete(1, fail)

SpecEdit == InitEdit /\ [][NextEdit]_vars

\* recipes with dependent rows, with deletions interleaving
InitCascade ==
  /\ InitPool /\ InitRequests
  /\ users = {LegacyUser}
  /\ recipes = {StoredRecipe(id) : id \in RecipeIds}
  /\ nextRecipe = MaxRecipes
  /\ favorites = EmptyBag /\ ratings = EmptyBag

CommentBodies ==
  {[content |-> "Rico", userId |-> 1], [content |-> "", userId |-> 1],
   [content |-> "Rico", userId |-> 0]}

\* the stored recipes and an id that is not stored
PathIds == 1..(MaxRecipes + 1)

\* the first stored recipe and an id that is not stored
FirstOrNone == {1, MaxRecipes + 1}

NextCascade ==
  \/ \E r \in FirstOrNone, fail \in BOOLEAN : PostFavorite(1, r, fail)
  \/ \E fail \in BOOLEAN : PutRating(1, 2, Number(5), fail)
  \/ \E r \in FirstOrNone, b \in CommentBodies, fail \in BOOLEAN :
       PostComment(r, b, fail)
  \/ \E s \in Slots, id \in PathIds, fail \in BOOLEAN :
       DeleteRecipeCheck(s, id, fail)
  \/ \E s \in Slots, fail \in BOOLEAN : DeleteRecipeDelete(s, fail)

SpecCascade == InitCascade /\ [][NextCascade]_vars

\* uploads and recipes created with an image
Png == <<"image", "/", "png">>
PlainText == <<"text", "/", "plain">>

Files ==
  { [size |-> 1024, mimetype |-> Png],
    [size |-> FileSizeLimit, mimetype |-> Png],
    [size |-> FileSizeLimit + 1, mimetype |-> Png],
    [size |-> 1024, mimetype |-> PlainText] }

\* a multipart form that passes RecipeCreateSchema
GoodForm ==
  [NoFields EXCEPT !.title = "Paella", !.userId = 1,
                   !.imageUrl = "http://img/1",
                   !.servings = String("4"),
                   !.ingredients = String("[rice]")]

FormBodies ==
  { GoodForm,
    [GoodForm EXCEPT !.title = UNDEFINED],
    [GoodForm EXCEPT !.ingredients = String("{bad")] }

NextImages ==
  \/ \E file \in Files \cup {NoFile}, ok \in BOOLEAN : UploadImage(file, ok)
  \/ \E s \in OneSlot, file \in Files \cup {NoFile}, b \in FormBodies,
        ok \in BOOLEAN :
       WithImageUpload(s, file, b, ok)
  \/ \E s \in OneSlot, fail \in BOOLEAN : WithImageInsert(s, fail)

SpecImages == InitEmpty /\ [][NextImages]_vars

\* the difficulty of a recipe through both creations and the update
DifficultyInputs == {UNDEFINED, "Dificil", "dificil", "Dura"}

TitledBody == [NoFields EXCEPT !.title = "Paella", !.userId = 1]

SmallPng == [size |-> 1024, mimetype |-> Png]

NextDifficulty ==
  \/ \E d \in DifficultyInputs, fail \in BOOLEAN :
       CreateRecipe([TitledBody EXCEPT !.difficulty = d], fail)
  \/ \E d \in DifficultyInputs, json \in {"", "{bad"}, ok \in BOOLEAN :
       WithImageUpload(1, SmallPng,
                       [TitledBody EXCEPT !.difficulty = d,
                                          !.ingredients = String(json)], ok)
  \/ \E fail \in BOOLEAN : WithImageInsert(1, fail)
  \/ \E d \in DifficultyInputs, fail \in BOOLEAN :
       PutRecipeCheck(1, 1, [NoFields EXCEPT !.difficulty = d], fail)
  \/ \E fail \in BOOLEAN : PutRecipeUpdate(1, fail)

SpecDifficulty == InitEmpty /\ [][NextDifficulty]_vars

\* password changes of a user with a stored hash, interleaving with each
\* other and with logins
Member(id, name, email, password) ==
  [id |-> id, name |-> name, email |-> email, avatar_url |-> NULL,
   created_at |-> "old", password_hash |-> BcryptHash(password, "s1")]

Ann == Member(1, "Ann", <<"a">>, "secret1")
Bob == Member(2, "Bob", <<"b">>, "secret2")

InitPassword ==
  /\ InitPool /\ InitRequests
  /\ users = {Ann, Bob}
  /\ recipes = {} /\ nextRecipe = 0
  /\ favorites = EmptyBag /\ ratings = EmptyBag

ChangeBodies ==
  [currentPassword : {"12345", "secret1", "secret2"},
   newPassword : {"secret2", "secret3"}]

\* user 1 is stored, user MaxUsers + 1 is not
ChangedIds == {1, MaxUsers + 1}

NextPassword ==
  \/ \E s \in Slots, id \in ChangedIds, b \in ChangeBodies, fail \in BOOLEAN :
       PwdSelect(s, id, b, fail)
  \/ \E s \in Slots, salt \in Salts, fail \in BOOLEAN : PwdUpdate(s, salt, fail)
  \/ \E b \in [email : {<<"A">>}, password : {"secret1", "secret2", "secret3"}],
        pick \in users \cup {NoRow}, fail \in BOOLEAN :
       Login(b, pick, fail)

SpecPassword == InitPassword /\ [][NextPassword]_vars

----------------------------------------------------------------------------
(* C1: query() and the pool (SpecDb) *)

\* C1 as stated: in every reachable state the number of checked-out
\* connections equals the number of query() calls in flight.
C1_CheckedOutEqualsInFlight ==
  Cardinality(checkedOut) = Cardinality(InFlight)

\* C1, amended: every call of query() releases the connection it acquired on
\* both exits: the checked-out connections are exactly those held by the
\* calls between the resolution of pool.connect() and client.release() (a
\* call still awaiting pool.connect() holds none), one per such call; their
\* number never exceeds the number of calls in flight and is 0 whenever no
\* call is in flight.
C1_ReleasedOnBothExits ==
  /\ checkedOut = {qclient[c] : c \in Holding}
  /\ Cardinality(checkedOut) = Cardinality(Holding)
  /\ \A c \in Calls \ Holding : qclient[c] = 0
  /\ Cardinality(checkedOut) <= Cardinality(InFlight)
  /\ InFlight = {} => checkedOut = {}

\* a failed and a succeeded call have both settled, nothing is in flight
C1_Witness ==
  /\ \E c \in Calls : qpc[c] = "rejected"
  /\ \E c \in Calls : qpc[c] = "resolved"
  /\ InFlight = {}

----------------------------------------------------------------------------
(* C2, C3: ratings (SpecRatings) *)

Success == {200, 201, 204}

\* the number of rows a table holds for a (user, recipe) pair
CopiesOfPair(table, userId, recipeId) ==
  BagCount(table, {x \in BagToSet(table) :
                     x.user_id = userId /\ x.recipe_id = recipeId})

\* C2: in every reachable state the store holds at most one rating row per
\* (user, recipe) pair; the row of a pair exists only after a successful PUT
\* for the pair and its value is the rating of the last successful PUT for
\* the pair; a PUT answered 200 leaves exactly one row with its rating.
C2_UpsertOneRowPerPair ==
  /\ \A u \in UserIds \cup {0}, r \in RecipeIds :
       CopiesOfPair(ratings, u, r) <= 1
  /\ \A u \in UserIds, r \in RecipeIds :
       \A x \in RatingsOfPair(u, r) :
         lastPut[<<u, r>>] # 0 /\ x.rating = lastPut[<<u, r>>]
  /\ (last.op = "putRating" /\ last.status = 200) =>
       /\ CopiesOfPair(ratings, last.arg.userId, last.arg.recipeId) = 1
       /\ \A x \in RatingsOfPair(last.arg.userId, last.arg.recipeId) :
            x.rating = last.body.rating

\* a successful PUT has overwritten a different rating of its pair while
\* another user's rating of the same recipe is stored
C2_Witness ==
  /\ last.op = "putRating" /\ last.status = 200
  /\ last.arg.replaced # 0 /\ last.arg.replaced # last.body.rating
  /\ \E u \in UserIds : u # last.arg.userId
                        /\ RatingsOfPair(u, last.arg.recipeId) # {}

\* the answer of GET /recipes/:id/ratings describes the stored rows: count
\* is their number and average (in hundredths) is the hundredth nearest to
\* their mean, both 0 when there is no row
C3_Response ==
  (last.op = "getRecipeRatings" /\ last.status = 200) =>
    LET rows == RowsOfRecipe(ratings, last.arg.id)
        n == BagCount(ratings, rows)
        sum == BagSum(ratings, rows)
        d == 100 * sum - last.body.average * n
    IN /\ last.body.count = n
       /\ n = 0 => last.body.average = 0
       /\ n > 0 => (2 * d <= n /\ -2 * d <= n)

\* PUT 5 then PUT 2 by the only rater of a recipe: the GET that follows
\* answers count 1 and average 2
C3_Example ==
  \A r \in RecipeIds :
    ( /\ last'.op = "putRating" /\ last'.status = 200
      /\ last'.arg.recipeId = r
      /\ last'.arg.replaced = 5 /\ last'.body.rating = 2
      /\ \A x \in RowsOfRecipe(ratings', r) : x.user_id = last'.arg.userId )
    => RatingsBody(ratings', r) = [average |-> 200, count |-> 1]

\* C3: GET /recipes/:id/ratings returns count equal to the number of rating
\* rows stored for the recipe and average equal to their mean rounded to two
\* decimals, with average 0 and count 0 when there is no row; after one user
\* PUTs 5 and then 2 for a recipe nobody else rated, it returns count 1 and
\* average 2.
C3_AverageAndCount == [][C3_Response' /\ C3_Example]_vars

\* three ratings 1, 2, 2: the mean 1.666... is answered as 1.67
C3_Witness ==
  /\ last.op = "getRecipeRatings" /\ last.status = 200
  /\ last.body = [average |-> 167, count |-> 3]

----------------------------------------------------------------------------
(* C4, C5: favorites (SpecFav) *)

OtherTablesUnchanged ==
  /\ users' = users /\ recipes' = recipes /\ ratings' = ratings

PostFavoriteStep == last' # last /\ last'.op = "postFavorite"

\* C4: no state holds two favorite rows for one pair; a POST answered 201
\* leaves exactly one row for its pair; a POST of a pair that is already
\* stored answers 201 and leaves the stored state unchanged (it answers an
\* error only when the statement itself fails in the store, and changes
\* nothing then either); a duplicate is never the cause of an error.
C4_FavoriteIdempotent ==
  [][ /\ \A x \in BagToSet(favorites') : favorites'[x] = 1
      /\ PostFavoriteStep =>
           LET row == FavRow(last'.arg.userId, last'.arg.recipeId) IN
           /\ OtherTablesUnchanged
           /\ last'.status \in {201, 400}
           /\ last'.status = 201 => /\ BagIn(row, favorites')
                                    /\ favorites'[row] = 1
           /\ last'.status = 400 =>
                /\ favorites' = favorites
                /\ last'.body.error \in {StorageMsg, FkMsg}
                /\ last'.body.error = FkMsg =>
                     ~RecipeExists(last'.arg.recipeId)
           /\ BagIn(row, favorites) =>
                /\ favorites' = favorites
                /\ last'.status = 201 \/ last'.body.error = StorageMsg
    ]_vars

\* a second POST of a stored pair has been answered 201 without a new row
C4_Witness ==
  /\ last.op = "postFavorite" /\ last.status = 201
  /\ "createdAt" \notin DOMAIN last.body
  /\ favorites[FavRow(last.arg.userId, last.arg.recipeId)] = 1

DeleteFavoriteStep == last' # last /\ last'.op = "deleteFavorite"

\* C5: a DELETE of a favorite answered 204 leaves its pair absent, removes
\* no other favorite row and changes no other table; on a pair that is not
\* stored it leaves the favorites unchanged; it answers an error only when
\* the statement itself fails in the store, and changes nothing then.
C5_DeleteFavoriteIdempotent ==
  [][ DeleteFavoriteStep =>
        LET row == FavRow(last'.arg.userId, last'.arg.recipeId) IN
        /\ OtherTablesUnchanged
        /\ last'.status \in {204, 400}
        /\ last'.status = 204 =>
             /\ ~BagIn(row, favorites')
             /\ \A x \in BagToSet(favorites) \ {row} :
                  BagIn(x, favorites') /\ favorites'[x] = favorites[x]
             /\ \A x \in BagToSet(favorites') : BagIn(x, favorites)
             /\ ~BagIn(row, favorites) => favorites' = favorites
        /\ last'.status = 400 =>
             favorites' = favorites /\ last'.body.error = StorageMsg
    ]_vars

\* a DELETE has removed one favorite of a user who keeps another one
C5_Witness ==
  /\ last.op = "deleteFavorite" /\ last.status = 204
  /\ ~BagIn(FavRow(last.arg.userId, last.arg.recipeId), favorites)
  /\ \E x \in BagToSet(favorites) : x.user_id = last.arg.userId

----------------------------------------------------------------------------
(* C6: the saved list and the authored list (SpecRecipes) *)

UnroutedStep == last' # last /\ last'.op = "unrouted"

----------------------------------------------------------------------------
(* C7, C8, C10: registration and login (SpecAuth) *)

\* two e-mail addresses are equal up to the case of their letters
SameLetter(x, y) == x = y \/ {x, y} \in {{"a", "A"}, {"b", "B"}}

SameEmail(e, f) ==
  /\ Len(e) = Len(f)
  /\ \A i \in 1..Len(e) : SameLetter(e[i], f[i])

RegisterStep == last' # last /\ last'.op = "register"

\* C7: a registration whose e-mail equals, up to case, the e-mail of a user
\* stored when its existence check runs is rejected with 409 and never
\* reaches the INSERT; a registration answered 409, 400 or 500 adds no user
\* row; one answered 201 adds exactly one user row, with its e-mail; an
\* error other than 409 and 400 comes only from a failing statement.
C7_RegisterDuplicateRejected ==
  [][ /\ \A s \in Slots :
           (regs[s].pc = "idle" /\ regs'[s].pc = "insert") =>
             ~\E u \in users : SameEmail(u.email, regs'[s].body.email)
      /\ RegisterStep =>
           /\ last'.status \in {201, 400, 409, 500}
           /\ last'.status = 409 =>
                /\ users' = users
                /\ \E u \in users : SameEmail(u.email, last'.arg.email)
           /\ last'.status \in {400, 500} => users' = users
           /\ last'.status = 500 => last'.body.error = StorageMsg
           /\ last'.status = 201 =>
                /\ Cardinality(users') = Cardinality(users) + 1
                /\ \E u \in users' \ users :
                     /\ users' = users \cup {u}
                     /\ u.email = last'.arg.email
                     /\ last'.body.id = u.id
    ]_vars

\* "A" has been rejected with 409 while only "a" is stored
C7_Witness ==
  /\ last.op = "register" /\ last.status = 409
  /\ last.arg.email = <<"A">>
  /\ \E u \in users : u.email = <<"a">>
  /\ ~\E u \in users : u.email = <<"A">>

\* C8: in every reachable state no two stored users have e-mails that are
\* equal when lower-cased.
C8_EmailUnique ==
  \A u, v \in users : u # v => ~SameEmail(u.email, v.email)

\* C10: a schema-valid login is answered 200 if and only if a stored user
\* has that e-mail (up to case), has a password hash and the password
\* matches the hash; an unknown e-mail is answered 401 or 404; every other
\* failure is answered 401.
C10_LoginIff ==
  (last.op = "login" /\ last.status \notin {400, 500}) =>
    LET known == {u \in users : SameEmail(u.email, last.arg.email)}
        ok == \E u \in known :
                /\ u.password_hash # NULL
                /\ BcryptCompare(last.arg.password, u.password_hash)
    IN /\ last.status = 200 <=> ok
       /\ known = {} => last.status \in {401, 404}
       /\ (known # {} /\ ~ok) => last.status = 401

----------------------------------------------------------------------------
(* C9: responses with user data (SpecUsers) *)

UserOps == {"register", "login", "getUser", "putUser", "putPassword"}

\* the fields of a body whose values are strings
StringFields ==
  {"name", "avatarUrl", "createdAt", "error", "details", "message",
   "password_hash"}

\* C9: no body answered by register, login, GET /users/:id, PUT /users/:id
\* or PUT /users/:id/password has a password_hash field or a field whose
\* value is the password hash of a stored user.
C9_NoHashInResponse ==
  last.op \in UserOps =>
    /\ "password_hash" \notin DOMAIN last.body
    /\ \A f \in DOMAIN last.body \cap StringFields, u \in users :
         u.password_hash # NULL => last.body[f] # u.password_hash

\* a login has succeeded for a user with a stored hash
C9_Witness ==
  /\ last.op = "login" /\ last.status = 200
  /\ \E u \in users : u.id = last.body.id /\ u.password_hash # NULL

----------------------------------------------------------------------------
(* C11, C12, C13: PUT /recipes/:id (SpecEdit) *)

\* the column of each updatable field
ColumnOf(f) ==
  CASE f = "categoryId" -> "category_id"
    [] f = "imageUrl" -> "image_url"
    [] f = "prepTime" -> "prep_time"
    [] f = "cookTime" -> "cook_time"
    [] OTHER -> f

NineFields ==
  {"title", "description", "categoryId", "imageUrl", "ingredients",
   "prepTime", "cookTime", "servings", "difficulty"}

\* the value a request carries for a field, as the column stores it
RequestValue(data, f) ==
  IF f = "ingredients"
    THEN (IF data.ingredients.v = <<>> THEN "[]"
          ELSE IF Len(data.ingredients.v) = 1 THEN "[{name,amount}]"
          ELSE "[{name,amount},...]")
    ELSE data[f]

Carried(data, f) ==
  IF f = "ingredients" THEN data.ingredients.t = "array"
  ELSE data[f] # UNDEFINED

StoredWithId(table, id) == {r \in table : r.id = id}

\* the step in which the request of slot s runs its UPDATE and answers
PutUpdateStep(s) == puts[s].pc = "update" /\ puts'[s].pc = "idle"

\* C11: when PUT /recipes/:id answers 200, the recipe with that id (if it is
\* still stored when the UPDATE runs) has, for each of the nine updatable
\* fields, the request's value if the request carries the field and its old
\* value otherwise; its id, owner and creation timestamp are unchanged, also
\* when the body carries a userId; every other recipe and every other table
\* is unchanged; the body is the updated row.  A PUT that answers another
\* status changes no recipe.
C11_PartialUpdate ==
  [][ \A s \in Slots : PutUpdateStep(s) =>
        LET id == puts[s].id
            data == puts[s].data
        IN /\ users' = users /\ favorites' = favorites
           /\ ratings' = ratings /\ comments' = comments
           /\ {r \in recipes' : r.id # id} = {r \in recipes : r.id # id}
           /\ Cardinality(recipes') = Cardinality(recipes)
           /\ last'.status # 200 => recipes' = recipes
           /\ last'.status = 200 =>
                \A old \in StoredWithId(recipes, id) :
                  \E new \in StoredWithId(recipes', id) :
                    /\ new.user_id = old.user_id
                    /\ new.created_at = old.created_at
                    /\ \A f \in NineFields :
                         new[ColumnOf(f)] =
                           IF Carried(data, f) THEN RequestValue(data, f)
                           ELSE old[ColumnOf(f)]
                    /\ last'.body.id = id
                    /\ last'.body.userId = old.user_id
                    /\ last'.body.title = new.title
                    /\ last'.body.servings = new.servings
    ]_vars

\* a PUT that carried a title and a userId has answered 200: the title is
\* the request's, the owner and the difficulty are the stored ones, and the
\* other recipe is as it was stored
C11_Witness ==
  /\ last.op = "putRecipe" /\ last.status = 200
  /\ last.body # NoBody
  /\ last.body.title = "Tortilla" /\ last.body.userId = 1
  /\ last.body.difficulty = "Media"
  /\ StoredRecipe(2) \in recipes

\* a PUT is answered by the step that ran its existence check
PutCheckAnswer ==
  /\ last' # last /\ last'.op = "putRecipe"
  /\ puts' = puts

\* C12 as stated: a PUT whose body carries none of the nine updatable
\* fields is answered 400 (a failing statement aside).
C12_EmptyUpdateIs400 ==
  (last.op = "putRecipe" /\ last.arg.fields = 0
   /\ last.body # ErrorBody(StorageMsg)) => last.status = 400

\* C12, amended: a PUT whose body carries none of the nine updatable fields
\* issues no UPDATE and leaves the store unchanged; it is answered 400 when
\* the body fails the schema (before any statement) or when the id is
\* stored, and 404 when the id is not stored; it is never answered 200, and
\* 500 only when the existence check fails in the store.
C12_EmptyUpdateRejected ==
  [][ /\ (last' # last /\ last'.op = "putRecipe" /\ last'.arg.fields = 0)
           => PutCheckAnswer
      /\ (PutCheckAnswer /\ last'.arg.fields = 0) =>
           /\ dbVars' = dbVars
           /\ issued' <= 1
           /\ last'.status \in {400, 404, 500}
           /\ last'.body = InvalidBody => issued' = 0
           /\ (last'.status = 400 /\ last'.body # InvalidBody) =>
                /\ StoredWithId(recipes, last'.arg.id) # {}
                /\ issued' = 1
           /\ last'.status = 404 => StoredWithId(recipes, last'.arg.id) = {}
           /\ last'.status = 500 => last'.body = ErrorBody(StorageMsg)
    ]_vars

\* a body without fields has been answered 400 after the existence check
C12_Witness ==
  /\ last.op = "putRecipe" /\ last.status = 400
  /\ last.arg.fields = 0 /\ last.body # InvalidBody
  /\ issued = 1
  /\ StoredRecipe(1) \in recipes

\* C13: a PUT whose body passes the schema and whose id is not stored when
\* its existence check runs is answered 404 (500 if the check itself fails
\* in the store), issues no UPDATE and changes no stored state.
C13_UnknownIdIs404 ==
  [][ /\ (PutCheckAnswer /\ StoredWithId(recipes, last'.arg.id) = {}
          /\ last'.body # InvalidBody) =>
           /\ last'.status \in {404, 500}
           /\ last'.status = 500 => last'.body = ErrorBody(StorageMsg)
           /\ issued' = 1
           /\ dbVars' = dbVars
      /\ \A s \in Slots :
           (puts[s].pc = "idle" /\ puts'[s].pc = "update") =>
             StoredWithId(recipes, puts'[s].id) # {}
      /\ (PutCheckAnswer /\ last'.status = 404) =>
           StoredWithId(recipes, last'.arg.id) = {}
    ]_vars

\* a body that sets fields has been answered 404 while recipes are stored
C13_Witness ==
  /\ last.op = "putRecipe" /\ last.status = 404
  /\ last.arg.fields > 0
  /\ recipes # {}

----------------------------------------------------------------------------
(* C14: DELETE /recipes/:id and the dependent rows (SpecCascade) *)

\* every row of a table references a stored recipe
References(table, stored) ==
  \A x \in BagToSet(table) : \E r \in stored : r.id = x.recipe_id

\* the rows of a table that reference another recipe than id, with their
\* numbers of copies
RowsOfOthers(table, id) ==
  {<<x, table[x]>> : x \in {y \in BagToSet(table) : y.recipe_id # id}}

\* a DELETE is answered by the step that ran its existence check
DeleteCheckAnswer ==
  /\ last' # last /\ last'.op = "deleteRecipe"
  /\ dels' = dels

\* the step in which the request of slot s runs its DELETE and answers
DeleteStep(s) == dels[s].pc = "delete" /\ dels'[s].pc = "idle"

\* C14: a DELETE /recipes/:id whose id is not stored when its existence
\* check runs is answered 404 and changes nothing; otherwise it runs the
\* DELETE and answers 204, after which neither the recipe nor any comment,
\* rating or favorite that references it is stored, while every other recipe
\* and the rows that reference other recipes are kept (500, and no change,
\* when a statement fails in the store); in every reachable state every
\* stored comment, rating and favorite references a stored recipe.
C14_DeleteCascades ==
  [][ /\ References(favorites', recipes')
      /\ References(ratings', recipes')
      /\ References(comments', recipes')
      /\ DeleteCheckAnswer =>
           /\ dbVars' = dbVars
           /\ last'.status \in {404, 500}
           /\ last'.status = 404 <=>
                (StoredWithId(recipes, last'.arg.id) = {}
                 /\ last'.body # ErrorBody(StorageMsg))
      /\ \A s \in Slots :
           (dels[s].pc = "idle" /\ dels'[s].pc = "delete") =>
             StoredWithId(recipes, dels'[s].id) # {}
      /\ \A s \in Slots : DeleteStep(s) =>
           LET id == dels[s].id IN
           /\ last'.op = "deleteRecipe" /\ last'.arg.id = id
           /\ last'.status \in {204, 500}
           /\ last'.status = 500 => dbVars' = dbVars
           /\ last'.status = 204 =>
                /\ recipes' = {r \in recipes : r.id # id}
                /\ \A x \in BagToSet(favorites') : x.recipe_id # id
                /\ \A x \in BagToSet(ratings') : x.recipe_id # id
                /\ \A x \in BagToSet(comments') : x.recipe_id # id
                /\ RowsOfOthers(favorites', id) = RowsOfOthers(favorites, id)
                /\ RowsOfOthers(ratings', id) = RowsOfOthers(ratings, id)
                /\ RowsOfOthers(comments', id) = RowsOfOthers(comments, id)
                /\ users' = users
    ]_vars

\* a recipe that had been rated has been deleted with 204 while another
\* recipe keeps its favorite and its comment
C14_Witness ==
  /\ last.op = "deleteRecipe" /\ last.status = 204
  /\ lastPut[<<1, last.arg.id>>] # 0
  /\ StoredWithId(recipes, last.arg.id) = {}
  /\ \E x \in BagToSet(favorites) : x.recipe_id # last.arg.id
  /\ \E x \in BagToSet(comments) : x.recipe_id # last.arg.id

----------------------------------------------------------------------------
(* C18, C19: uploads (SpecImages) *)

AssetIds(assets) == {a.id : a \in assets}

\* the request of slot s leaves the upload phase without an answer
ImageUploadDone(s) == imgs[s].pc = "idle" /\ imgs'[s].pc = "insert"

\* the step in which the request of slot s parses its form and answers
ImageInsertStep(s) == imgs[s].pc = "insert" /\ imgs'[s].pc = "idle"

\* a with-image request is answered in its upload phase
ImageUploadAnswer ==
  /\ last' # last /\ last'.op = "createWithImage"
  /\ imgs' = imgs

\* C18: in POST /recipes/with-image the attached image is uploaded before
\* the row is inserted and the inserted row carries the URL of that upload;
\* a request calls the upload at most once and issues at most one INSERT;
\* when the upload succeeded and the request then fails (validation error,
\* form that does not parse, failed INSERT) no recipe row is stored, the
\* asset stays on the image host and the failure is the answer of that same
\* request; no step removes an asset from the image host.
C18_UploadThenInsert ==
  [][ /\ hosted \subseteq hosted'
      /\ ImageUploadAnswer =>
           /\ last'.status = 500
           /\ last'.arg.uploads <= 1 /\ last'.arg.asset = 0
           /\ dbVars' = dbVars /\ hosted' = hosted
      /\ \A s \in Slots :
           /\ ImageUploadDone(s) =>
                LET slot == imgs'[s] IN
                /\ dbVars' = dbVars
                /\ slot.file = NoFile =>
                     /\ slot.uploads = 0 /\ slot.asset = 0
                     /\ hostVars' = hostVars
                /\ slot.file # NoFile =>
                     /\ slot.uploads = 1
                     /\ slot.asset \notin AssetIds(hosted)
                     /\ \E a \in hosted' :
                          /\ a.id = slot.asset /\ a.file = slot.file
                          /\ hosted' = hosted \cup {a}
           /\ ImageInsertStep(s) =>
                LET slot == imgs[s] IN
                /\ hostVars' = hostVars
                /\ issued' <= 1
                /\ last'.op = "createWithImage"
                /\ last'.arg.asset = slot.asset
                /\ last'.arg.uploads = slot.uploads /\ slot.uploads <= 1
                /\ slot.file # NoFile => slot.asset \in AssetIds(hosted)
                /\ last'.status \in {201, 400, 500}
                /\ last'.status # 201 =>
                     /\ dbVars' = dbVars
                     /\ "error" \in DOMAIN last'.body
                /\ last'.status = 201 =>
                     \E r \in recipes' \ recipes :
                       /\ recipes' = recipes \cup {r}
                       /\ last'.body.id = r.id
                       /\ slot.asset # 0 =>
                            r.image_url = AssetUrl(slot.asset)
    ]_vars

\* the upload of a request succeeded and its INSERT failed: the failure is
\* answered, the asset is on the image host and no recipe row refers to it
C18_Witness ==
  /\ last.op = "createWithImage" /\ last.status = 500
  /\ last.body = ErrorBody(StorageMsg)
  /\ last.arg.asset # 0
  /\ last.arg.asset \in AssetIds(hosted)
  /\ \A r \in recipes : r.image_url # AssetUrl(last.arg.asset)

\* a file of at most 5 MiB whose MIME type begins with "image/"
GoodUpload(f) ==
  /\ f.size <= 5242880
  /\ Len(f.mimetype) >= 2
  /\ f.mimetype[1] = "image" /\ f.mimetype[2] = "/"

UploadAnswer ==
  /\ last' # last /\ last'.op \in {"upload", "createWithImage"}

\* C19: the upload API of the image host is called only with a file of at
\* most 5 MiB whose MIME type begins with "image/", on POST /upload and on
\* POST /recipes/with-image; a request with another file is answered an
\* error without a call of the image host and without a statement; POST
\* /upload without a file is answered 400 without a call of the image host.
C19_OnlyImagesReachHost ==
  [][ /\ \A f \in provided' : GoodUpload(f)
      /\ \A a \in hosted' : GoodUpload(a.file) /\ a.file \in provided'
      /\ (UploadAnswer /\ last'.arg.file # NoFile
          /\ ~GoodUpload(last'.arg.file)) =>
           /\ last'.status \notin Success
           /\ hostVars' = hostVars /\ dbVars' = dbVars
           /\ issued' = 0
      /\ (UploadAnswer /\ last'.op = "upload" /\ last'.arg.file = NoFile) =>
           /\ last'.status = 400
           /\ hostVars' = hostVars
      /\ \A s \in Slots :
           /\ ImageUploadDone(s) =>
                (hostVars' # hostVars => GoodUpload(imgs'[s].file))
           /\ (ImageUploadDone(s) /\ imgs'[s].file = NoFile) =>
                hostVars' = hostVars
    ]_vars

\* a file of 5 MiB + 1 byte has been rejected while the image host stores a
\* file of exactly 5 MiB
C19_Witness ==
  /\ last.op \in {"upload", "createWithImage"}
  /\ last.arg.file.size = 5242881
  /\ last.status = 500
  /\ \E a \in hosted : a.file.size = 5242880
  /\ \A f \in provided : f.size <= 5242880

----------------------------------------------------------------------------
(* C15: the difficulty of the stored recipes (SpecDifficulty) *)

RecipeWriters == {"createRecipe", "createWithImage", "putRecipe"}

----------------------------------------------------------------------------
(* C16, C17: validation failures and storage failures *)

ValidatingOps ==
  {"createRecipe", "createWithImage", "putRecipe", "register", "login",
   "putPassword", "putRating", "postComment", "putUser"}

\* the request answered last was rejected for its payload
PayloadRejected ==
  /\ last.op \in ValidatingOps
  /\ \/ last.status = 400
     \/ /\ "error" \in DOMAIN last.body
        /\ last.body.error = "Unexpected token"

\* C16: an endpoint that validates its payload answers a malformed or
\* incomplete payload with 400 and a field-level error report, and the
\* request issues no database statement (SpecRatings).
C16_InvalidPayloadReported ==
  PayloadRejected =>
    /\ last.status = 400
    /\ "details" \in DOMAIN last.body
    /\ issued = 0

\* the request answered last met a statement that threw
StorageFailed ==
  /\ last.op # "none"
  /\ \/ last.status = 0
     \/ "html" \in DOMAIN last.body
     \/ /\ "error" \in DOMAIN last.body
        /\ last.body.error \in {StorageMsg, FkMsg}

\* C17: every storage failure is answered with a 500-class status and an
\* error message: never with another status class, never without a
\* response (SpecFav).
C17_StorageFailureIs500 ==
  StorageFailed =>
    /\ last.status = 500
    /\ "error" \in DOMAIN last.body

----------------------------------------------------------------------------
(* C20: the stored users (SpecUsers) *)

IdsOf(table) == {u.id : u \in table}

\* C20: no step removes a user: the ids of the stored users only grow, and
\* they grow only in the step in which POST /auth/register runs its INSERT
\* and answers 201, by the one id it answers.
C20_UsersOnlyGrow ==
  [][ /\ IdsOf(users) \subseteq IdsOf(users')
      /\ Cardinality(users') >= Cardinality(users)
      /\ IdsOf(users') # IdsOf(users) =>
           /\ last'.op = "register" /\ last'.status = 201
           /\ \E s \in Slots : regs[s].pc = "insert" /\ regs'[s].pc = "idle"
           /\ IdsOf(users') = IdsOf(users) \cup {last'.body.id}
    ]_vars

\* the recipe of the first user has been deleted after a second user
\* registered and the first was renamed: both users are stored
C20_Witness ==
  /\ last.op = "deleteRecipe" /\ last.status = 204
  /\ recipes = {}
  /\ IdsOf(users) = {1, 2}
  /\ \E u \in users : u.id = 1 /\ u.name = "Bob"

----------------------------------------------------------------------------
(* C21: PUT /users/:id/password (SpecPassword) *)

Stored(table, id) == \E u \in table : u.id = id
HashOf(table, id) == (CHOOSE u \in table : u.id = id).password_hash

\* a step in which PUT /users/:id/password answers without an UPDATE
PwdCheckAnswer ==
  /\ pwds' = pwds
  /\ last'.op = "putPassword" /\ last' # last

\* the step in which the request of slot s runs its UPDATE
PwdUpdateStep(s) == pwds[s].pc = "update" /\ pwds'[s].pc = "idle"

\* the step of a login that follows the answer of a password change
LoginAfterChange ==
  /\ last.op = "putPassword" /\ last.status = 200
  /\ last'.op = "login" /\ last'.status # 500
  /\ Stored(users, last.arg.id)
  /\ Lower(last'.arg.email) =
       Lower((CHOOSE u \in users : u.id = last.arg.id).email)

\* everything but the password hash of user id is as before
OnlyHashOf(id) ==
  /\ \A u \in users : u.id # id => u \in users'
  /\ \A u \in users' : u.id # id => u \in users
  /\ \A u \in users : u.id = id =>
       \E w \in users' : w = [u EXCEPT !.password_hash = w.password_hash]
  /\ Cardinality(users') = Cardinality(users)

\* C21: PUT /users/:id/password replaces the stored hash only when the
\* supplied currentPassword matches the stored hash; a mismatch answers 401
\* and changes nothing, an unknown id answers 404; after a successful change
\* a login with the new password succeeds and a login with the old password
\* answers 401; no other field and no other user changes.
C21_PasswordChange ==
  [][ /\ PwdCheckAnswer =>
           /\ users' = users
           /\ last'.status = 401 =>
                /\ Stored(users, last'.arg.id)
                /\ ~BcryptCompare(last'.arg.body.currentPassword,
                                  HashOf(users, last'.arg.id))
           /\ last'.status = 404 => ~Stored(users, last'.arg.id)
           /\ ChangePasswordValid(last'.arg.body) =>
                IF ~Stored(users, last'.arg.id)
                  THEN last'.status \in {404, 500}
                  ELSE last'.status \in {401, 500}
      /\ \A s \in Slots : PwdUpdateStep(s) =>
           /\ OnlyHashOf(pwds[s].id)
           /\ users' # users =>
                /\ last'.status = 200
                /\ BcryptCompare(pwds[s].body.currentPassword,
                                 HashOf(users, pwds[s].id))
           /\ last'.status = 200 =>
                BcryptCompare(pwds[s].body.newPassword,
                              HashOf(users', pwds[s].id))
      /\ LoginAfterChange =>
           /\ last'.arg.password = last.arg.body.newPassword =>
                last'.status = 200
           /\ last'.arg.password = last.arg.body.currentPassword =>
                last'.status = 401
    ]_vars

----------------------------------------------------------------------------
(* C22: the update-query builder of PUT /recipes/:id (SpecBuilder) *)

\* a body that carries the fields of S, each with its value of AllNine
BodyOf(S) ==
  [f \in DOMAIN AllNine |-> IF f \in S THEN AllNine[f] ELSE NoFields[f]]

Untouched == recipes = {StoredRecipe(1)}

InitBuilder ==
  /\ InitPool /\ InitRequests
  /\ users = {LegacyUser}
  /\ recipes = {StoredRecipe(1)} /\ nextRecipe = 1
  /\ favorites = EmptyBag /\ ratings = EmptyBag

\* one edit of the stored recipe, with every subset of the nine fields
NextBuilder ==
  \/ \E S \in SUBSET NineFields :
       Untouched /\ PutRecipeCheck(1, 1, BodyOf(S), FALSE)
  \/ \E fail \in BOOLEAN : PutRecipeUpdate(1, fail)

SpecBuilder == InitBuilder /\ [][NextBuilder]_vars

\* the fields in the order of the claim
FieldOrder ==
  <<"title", "description", "categoryId", "imageUrl", "ingredients",
    "prepTime", "cookTime", "servings", "difficulty">>

\* the position of a column in that order; 0 for any other text
PositionOf(col) ==
  IF \E i \in DOMAIN FieldOrder : ColumnOf(FieldOrder[i]) = col
    THEN CHOOSE i \in DOMAIN FieldOrder : ColumnOf(FieldOrder[i]) = col
    ELSE 0

\* the carried fields among the first p of the order
CarriedUpTo(data, p) == {i \in 1..p : Carried(data, FieldOrder[i])}

\* C22: for every subset of present fields the statement of a PUT that runs
\* its UPDATE has one clause per carried field, in the fixed order; the k-th
\* clause is `column = $k' of the k-th carried field and the k-th parameter
\* is that field's value; the recipe id is the last parameter and the WHERE
\* clause uses $(n+1); the clause texts are column names and placeholder
\* numbers only.
C22_BuilderWellFormed ==
  \A s \in Slots : puts[s].pc = "update" =>
    LET data == puts[s].data
        q == UpdateStatement(data, puts[s].id)
        n == Len(q.set)
    IN /\ n = Cardinality(CarriedUpTo(data, Len(FieldOrder)))
       /\ n >= 1
       /\ \A k \in 1..n :
            LET p == PositionOf(q.set[k].col) IN
            /\ p # 0
            /\ Carried(data, FieldOrder[p])
            /\ Cardinality(CarriedUpTo(data, p)) = k
            /\ q.set[k].ph = k
            /\ q.values[k] = RequestValue(data, FieldOrder[p])
       /\ Len(q.values) = n + 1
       /\ q.where = n + 1
       /\ q.values[q.where] = puts[s].id
       /\ q = UpdateStatement(
                ParsedData(BodyOf({f \in NineFields : Carried(data, f)})),
                puts[s].id)

\* a PUT that carries description, ingredients and difficulty, and no other
\* field, is about to run its UPDATE
C22_Witness ==
  /\ puts[1].pc = "update"
  /\ {f \in NineFields : Carried(puts[1].data, f)} =
       {"description", "ingredients", "difficulty"}
  /\ Len(UpdateStatement(puts[1].data, puts[1].id).set) = 3

----------------------------------------------------------------------------
(* C23: PUT /recipes/:id against a concurrent DELETE (SpecEdit) *)

\* C23: in every interleaving of a PUT with a DELETE of the same recipe, a
\* PUT that answers 200 carries the updated row in its body and the recipe
\* was stored when its UPDATE ran; a PUT whose UPDATE matched no row does
\* not answer with a success status.
C23_SuccessCarriesRow ==
  [][ \A s \in Slots : PutUpdateStep(s) =>
        /\ last'.status = 200 =>
             /\ StoredWithId(recipes, puts[s].id) # {}
             /\ last'.body # NoBody
             /\ last'.body.id = puts[s].id
        /\ StoredWithId(recipes, puts[s].id) = {} =>
             last'.status \notin 200..299
    ]_vars

====
